---- MODULE Spec2Model ----
(***************************************************************************)
(* Commit ingestion and iterative task reconstruction of misanthrope_PM.   *)
(* The model follows src/app/core/git_reverse_analyst.py (the generator    *)
(* GitReverseAnalyst.analyze_git_logs, analyze_commit, _parse_response,    *)
(* update_project_data) and src/app/models.py (ClosedTask.__init__).       *)
(*                                                                         *)
(* A text is a non-empty sequence of lines (Python: its split at newlines).*)
(* Indices i are the 0-based indices of the code; commits[i + 1] is the    *)
(* code's commits[i].                                                      *)
(***************************************************************************)
EXTENDS Integers, Sequences, FiniteSets, TLC

\* ------------------------------------------------------------------ bounds
MaxCommits == 4

\* ------------------------------------------------------- program constants
Attempts == 3
BodyBudget == 100000
SizeCeiling == 90000
\* len(full_prompt) for an empty commit text, title and carry-over, with an
\* empty list of reference tasks: 2 * len(setup_prompt) + len(base_prompt)
\* + the fixed part of the per-commit prompt.
FixedPromptLen == 3564

\* ------------------------------------------------------------------ inputs
TextSizes == {120, 86430, 100001}
TitleSizes == {5}
\* response.total_duration / 10 ** 9 of a response: positive.
Durations == {1}

Category == {"I", "F", "B"}

Min(a, b) == IF a < b THEN a ELSE b

Reverse(s) == [k \in 1..Len(s) |-> s[Len(s) + 1 - k]]

\* -------------------------------------------------------------- exceptions
Raised(e) == [ok |-> FALSE, exc |-> e, value |-> <<>>]
Returned(v) == [ok |-> TRUE, exc |-> "", value |-> v]

\* ---------------------------------------------------- ClosedTask.__init__
\* def __init__(self, text: str, category: str, **data): args are the
\* positional arguments after self, kwargs the keyword arguments.
NoKwargs == [k \in {} |-> ""]

\* A mutant of ClosedTask: the third positional argument is accepted and a
\* task without finished_at is built.
ClosedTaskAcceptsDict(args, kwargs) ==
    Returned([text |-> args[1], category |-> args[2],
              finished_at |-> [year |-> 0, month |-> 0]])

ClosedTask(args, kwargs) ==
    LET params == <<"text", "category">>
        data == [k \in (DOMAIN kwargs) \ {"text", "category"} |-> kwargs[k]]
    IN  IF Len(args) > 2
        THEN Raised("TypeError")
        ELSE IF \E k \in 1..Len(args) : params[k] \in DOMAIN kwargs
        THEN Raised("TypeError")
        ELSE IF \E k \in (Len(args) + 1)..2 : params[k] \notin DOMAIN kwargs
        THEN Raised("TypeError")
        ELSE LET text == IF Len(args) >= 1 THEN args[1] ELSE kwargs["text"]
                 category == IF Len(args) >= 2 THEN args[2] ELSE kwargs["category"]
             IN  IF category \notin Category
                 THEN Raised("ValueError")
                 ELSE IF "text" \notin DOMAIN data
                 THEN Raised("KeyError")
                 ELSE IF "category" \notin DOMAIN data
                 THEN Raised("KeyError")
                 ELSE Returned([text |-> text, category |-> category] @@ data)

\* -------------------------------------------------------------- json.loads
JsonDocs ==
    ( <<"{\"tasks\": [], \"unfinished_moves\": \"\"}">> :>
          [tasks |-> <<>>, unfinished_moves |-> ""] )
 @@ ( <<"{\"tasks\": [], \"unfinished_moves\": \"wip\"}">> :>
          [tasks |-> <<>>, unfinished_moves |-> "wip"] )
 @@ ( <<"{\"tasks\": [{\"text\": \"api\", \"category\": \"B\"}], \"unfinished_moves\": \"wip\"}">> :>
          [tasks |-> << [text |-> "api", category |-> "B"] >>,
           unfinished_moves |-> "wip"] )
 @@ ( <<"{\"tasks\": [{\"text\": \"api\", \"category\": \"X\"}], \"unfinished_moves\": \"wip\"}">> :>
          [tasks |-> << [text |-> "api", category |-> "X"] >>,
           unfinished_moves |-> "wip"] )
 @@ ( <<"{\"tasks\": [{\"text\": \"api\", \"category\": \"B\"}, {\"text\": \"ui\", \"category\": \"X\"}], \"unfinished_moves\": \"\"}">> :>
          [tasks |-> << [text |-> "api", category |-> "B"],
                        [text |-> "ui", category |-> "X"] >>,
           unfinished_moves |-> ""] )
 @@ ( <<"{\"tasks\": [],", " \"unfinished_moves\": \"wip\"}">> :>
          [tasks |-> <<>>, unfinished_moves |-> "wip"] )
 @@ ( <<"{\"tasks\": []}">> :>
          [tasks |-> <<>>] )
 @@ ( <<"{\"unfinished_moves\": \"wip\"}">> :>
          [unfinished_moves |-> "wip"] )

\* json.loads ignores white space (here: blank lines) around the document.
JsonLoads(text) ==
    LET body == SelectSeq(text, LAMBDA l : l # "")
    IN  IF body \in DOMAIN JsonDocs
        THEN Returned(JsonDocs[body])
        ELSE Raised("JSONDecodeError")

\* ---------------------------------------------------------- _parse_response
\* The lines that begin with three backquotes; a backquote cannot be written
\* in a string of this language, so q stands for one.
FenceLines == {"qqq", "qqqjson"}

\* text.startswith(fence): the first line begins with three backquotes
StartsWithFence(text) == text[1] \in FenceLines

\* Variant of StripFence: the slice [1:] instead of [1:-1].
StripFenceKeepsLast(text) == SubSeq(text, 2, Len(text))

\* the lines text.split(newline)[1:-1], joined again
StripFence(text) == SubSeq(text, 2, Len(text) - 1)

\* [ClosedTask(task["text"], task["category"], task) for task in result['tasks']]
RECURSIVE BuildTasks(_)
BuildTasks(objs) ==
    IF objs = <<>>
    THEN Returned(<<>>)
    ELSE LET task == Head(objs)
         IN  IF "text" \notin DOMAIN task \/ "category" \notin DOMAIN task
             THEN Raised("KeyError")
             ELSE LET t == ClosedTask(<<task["text"], task["category"], task>>, NoKwargs)
                      rest == BuildTasks(Tail(objs))
                  IN  IF ~t.ok THEN Raised(t.exc)
                      ELSE IF ~rest.ok THEN Raised(rest.exc)
                      ELSE Returned(<<t.value>> \o rest.value)

\* The pair (tasks, result['unfinished_moves']) that _parse_response returns.
ParsedOf(tasks, um) == [tasks |-> tasks, unfinished_moves |-> um]

\* Variant of ParseResponse: result.get('unfinished_moves', '').
ParseResponseDefaultsCarry(text, closed_at) ==
    LET stripped == IF StartsWithFence(text) THEN StripFence(text) ELSE text
        result == JsonLoads(stripped)
    IN  IF ~result.ok
        THEN Raised(result.exc)
        ELSE IF "tasks" \notin DOMAIN result.value
        THEN Raised("KeyError")
        ELSE LET tasks == BuildTasks(result.value["tasks"])
             IN  IF ~tasks.ok
                 THEN Raised(tasks.exc)
                 ELSE Returned(ParsedOf(tasks.value,
                          IF "unfinished_moves" \in DOMAIN result.value
                          THEN result.value["unfinished_moves"] ELSE ""))

\* Variant of ParseResponse: a reply without tasks is treated as a failure.
ParseResponseRejectsNoTasks(text, closed_at) ==
    LET stripped == IF StartsWithFence(text) THEN StripFence(text) ELSE text
        result == JsonLoads(stripped)
    IN  IF ~result.ok
        THEN Raised(result.exc)
        ELSE IF "tasks" \notin DOMAIN result.value
        THEN Raised("KeyError")
        ELSE LET tasks == BuildTasks(result.value["tasks"])
             IN  IF ~tasks.ok
                 THEN Raised(tasks.exc)
                 ELSE IF tasks.value = <<>>
                 THEN Raised("ValueError")
                 ELSE IF "unfinished_moves" \notin DOMAIN result.value
                 THEN Raised("KeyError")
                 ELSE Returned(ParsedOf(tasks.value,
                                        result.value["unfinished_moves"]))

ParseResponse(text, closed_at) ==
    LET stripped == IF StartsWithFence(text) THEN StripFence(text) ELSE text
        result == JsonLoads(stripped)
    IN  IF ~result.ok
        THEN Raised(result.exc)
        ELSE IF "tasks" \notin DOMAIN result.value
        THEN Raised("KeyError")
        ELSE LET tasks == BuildTasks(result.value["tasks"])
             IN  IF ~tasks.ok
                 THEN Raised(tasks.exc)
                 ELSE IF "unfinished_moves" \notin DOMAIN result.value
                 THEN Raised("KeyError")
                 ELSE Returned(ParsedOf(tasks.value,
                                        result.value["unfinished_moves"]))

\* ----------------------------------------------------------- backend replies
Replies ==
    (DOMAIN JsonDocs)
    \cup { <<"not json">>,
           <<"qqqjson", "{\"tasks\": [], \"unfinished_moves\": \"wip\"}", "qqq">> }


\* A backend behaviour for one call of client.generate: it raises, or it
\* returns a response with a text and a total_duration (in seconds, > 0).
BackendRaises == [kind |-> "raise", text |-> <<"">>, duration |-> 0]
BackendReturns(text, d) == [kind |-> "response", text |-> text, duration |-> d]

\* ------------------------------------------------------------ analyze_commit
\* len(full_prompt): the commit text is cut to BodyBudget characters.
RequestSize(commit, um) ==
    FixedPromptLen + Len(um) + Min(commit.text_size, BodyBudget) + commit.title_size

\* A mutant of Oversized: the prompt is compared with the budget of the body.
OversizedAtBodyBudget(commit, um) == RequestSize(commit, um) > BodyBudget

\* Line 138: if len(full_prompt) > 90000.
Oversized(commit, um) == RequestSize(commit, um) > SizeCeiling

\* What analyze_commit hands back to its caller: the tuple ([], um) of the
\* too-long branch (no backend call), or the outcome of client.generate.
TooLongTuple == [kind |-> "tuple", text |-> <<"">>, duration |-> 0]

AnalyzeCommit(commit, um, backend) ==
    IF Oversized(commit, um) THEN TooLongTuple ELSE backend

\* ------------------------------------------- analyze_git_logs: the try body
Unbound == [bound |-> FALSE, value |-> <<>>]
Bound(v) == [bound |-> TRUE, value |-> v]

\* Variant of Failed: the except clause also clears the carry-over.
FailedResetsCarry(exc, tasks, um, acc, ttime) ==
    [ok |-> FALSE, exc |-> exc, tasks |-> tasks, unfinished_moves |-> "",
     tasks_doiting |-> acc, total__time |-> ttime]

\* Lines 94-96, the except clause: the exception is printed and the locals
\* stay as they were (attempts is decremented by the caller of this operator).
Failed(exc, tasks, um, acc, ttime) ==
    [ok |-> FALSE, exc |-> exc, tasks |-> tasks, unfinished_moves |-> um,
     tasks_doiting |-> acc, total__time |-> ttime]

\* Variant of Succeeded: tasks_doiting.append(tasks) instead of += tasks.
SucceededAppendsList(p, acc, ttime) ==
    [ok |-> TRUE, exc |-> "", tasks |-> Bound(p.tasks),
     unfinished_moves |-> p.unfinished_moves,
     tasks_doiting |-> Append(acc, p.tasks), total__time |-> ttime]

\* Lines 91-93: tasks, unfinished_moves = <parser output>; tasks_doiting += tasks
Succeeded(p, acc, ttime) ==
    [ok |-> TRUE, exc |-> "", tasks |-> Bound(p.tasks),
     unfinished_moves |-> p.unfinished_moves,
     tasks_doiting |-> acc \o p.tasks, total__time |-> ttime]

\* Lines 85-96: one pass of the try statement, given what analyze_commit
\* returned. The result holds the locals after the pass; ok is FALSE when
\* the except clause ran.
TryBody(resp, commit, tasks, um, acc, ttime) ==
    IF resp.kind = "raise"
    THEN \* client.generate raised inside analyze_commit (line 88)
         Failed("BackendError", tasks, um, acc, ttime)
    ELSE IF resp.kind = "tuple"
    THEN \* line 89: response.done on the tuple of the too-long branch
         Failed("AttributeError", tasks, um, acc, ttime)
    ELSE LET p == ParseResponse(resp.text, commit.timestamp)
         IN  IF p.ok
             THEN Succeeded(p.value, acc, ttime + resp.duration)
             ELSE Failed(p.exc, tasks, um, acc, ttime + resp.duration)

\* Variant of MayAttempt: while attempts >= 0.
MayAttemptOffByOne(a) == a >= 0

\* while attempts > 0
MayAttempt(a) == a > 0

\* Variant of AfterPass: the yield sits in the else clause of the while
\* statement, which a break skips.
AfterPassYieldInElse(ok, left) ==
    IF ok THEN "suspended"
    ELSE IF ~MayAttempt(left) THEN "yield" ELSE "attempt"

\* Where control goes after a pass: break on success, or the while condition.
AfterPass(ok, left) ==
    IF ok \/ ~MayAttempt(left) THEN "yield" ELSE "attempt"

\* ------------------------------------------------------- update_project_data
\* The finished_at of a task as pd.to_datetime(unit="s") reads it: a year
\* and a month, or NaT for a task that has none.
Dated(year, month) == [year |-> year, month |-> month]

Undated == [year |-> 0, month |-> 0]

\* date(2000, month, 1).strftime("%B") for the months of the inputs.
MonthName == (10 :> "October") @@ (11 :> "November")

\* Line 118: the month name and the current year modulo 1000.
FileName(month, year) == <<MonthName[month], year % 1000>>

\* A mutant of ToCsv: the rows are added to what the file holds.
ToCsvAppends(dir, name, rows) ==
    [f \in (DOMAIN dir) \cup {name} |->
        IF f # name THEN dir[f]
        ELSE IF name \in DOMAIN dir THEN dir[name] \o rows ELSE rows]

\* Line 119, DataFrame.to_csv(path): the file is created or overwritten.
ToCsv(dir, name, rows) ==
    [f \in (DOMAIN dir) \cup {name} |-> IF f = name THEN rows ELSE dir[f]]

\* Line 114, one group of groupby(month): the tasks of that month of the
\* year, of whatever year, in the order of the list.
OfMonth(tasks, month) ==
    SelectSeq(tasks, LAMBDA t : t.finished_at # Undated
                                 /\ t.finished_at.month = month)

RECURSIVE WriteChunks(_, _, _, _)
WriteChunks(dir, tasks, months, year) ==
    IF months = {} THEN dir
    ELSE LET m == CHOOSE x \in months : \A y \in months : x <= y
         IN  WriteChunks(ToCsv(dir, FileName(m, year), OfMonth(tasks, m)),
                         tasks, months \ {m}, year)

\* update_project_data, lines 108-119; the value returned is the content of
\* the predicted_tasks folder after the call.
\*   - pd.DataFrame of an empty list has no finished_at column, so line 111
\*     raises KeyError. analyze_git_logs only ever passes the empty list:
\*     ClosedTask raises for every task object, so tasks_doiting stays empty.
\*   - with dated and undated tasks together the month column holds NaN and
\*     is a float column: the first group name is a float and date(2000,
\*     name, 1) raises TypeError before any file is written.
\*   - groupby leaves the NaN key out, so a list of undated tasks only has
\*     no group and writes no file.
UpdateProjectData(tasks, dir, year) ==
    LET months == { tasks[k].finished_at.month :
                      k \in { j \in 1..Len(tasks) : tasks[j].finished_at # Undated } }
    IN  IF tasks = <<>>
        THEN Raised("KeyError")
        ELSE IF months # {} /\ \E k \in 1..Len(tasks) : tasks[k].finished_at = Undated
        THEN Raised("TypeError")
        ELSE Returned(WriteChunks(dir, tasks, months, year))

\* --------------------------------------------------------------------- state
VARIABLES
    logs,              \* the filtered log given to analyze_git_logs, newest first
    commits,           \* logs.to_dict(records), reversed: oldest first
    pc,                \* position of the generator / of its caller
    i,                 \* loop index of the commit being processed (0-based)
    attempts,          \* remaining attempts for commit i
    tasks,             \* the local tasks (unbound until a first success)
    unfinished_moves,  \* the carry-over
    tasks_doiting,     \* the accumulated task list
    total__time,       \* sum of the durations of the responses received
    yielded,           \* batches received by the caller, tagged by commit index
    aggregated,        \* arguments of the calls of update_project_data
    error,             \* exception that left the generator, or "none"
    step,              \* history of the current step: carry-over and list on
                       \* entry, attempts made, result
    requests,          \* the requests passed to client.generate, in order
    last,              \* what the last attempt of this step got from analyze_commit
    succeeded,         \* history: the parser output of every successful step
    file,              \* the text of git.logs, a sequence of lines
    closed_tasks,      \* PMContext.closed_tasks
    git_logs,          \* PMContext.git_logs, the rows of the frame in order
    daily_stats,       \* PMContext.daily_stats, the rows of the frame in order
    stage,             \* position of PMContext.__init__ / of its caller
    answer,            \* the last query made to the context and its outcome
    stream,            \* the task list a caller gives to update_project_data
    predicted_tasks,   \* the files of the predicted_tasks folder, by name
    clock,             \* datetime.now().year
    outcomes,          \* history: outcome and folder content of each call
    other,             \* the frame of a second run of analyze_git_logs
    runs,              \* calls of analyze_git_logs made after a run was over
    last_handle_speed, \* the attribute of the analyst written by line 103
    in_flight          \* calls of client.generate of the run not yet returned

\* The variables of the pipeline and those of the project context.
pipelineVars == <<logs, commits, pc, i, attempts, tasks, unfinished_moves,
                  tasks_doiting, total__time, yielded, aggregated, error, step,
                  requests, last, succeeded>>

contextVars == <<file, closed_tasks, git_logs, daily_stats, stage, answer>>

aggregatorVars == <<stream, predicted_tasks, clock, outcomes>>

runVars == <<other, runs, last_handle_speed, in_flight>>

vars == <<pipelineVars, contextVars, aggregatorVars, runVars>>

\* What an action of one component leaves alone.
outsidePipeline == <<contextVars, aggregatorVars, runVars>>

outsideContext == <<pipelineVars, aggregatorVars, runVars>>

Commit(ts, size, tsize) == [timestamp |-> ts, text_size |-> size, title_size |-> tsize]

\* Logs of n commits, newest first: timestamps n, n-1, ..., 1.
LogsOfLen(n) ==
    { [k \in 1..n |-> Commit(n + 1 - k, sz[k], tz[k])] :
        sz \in [1..n -> TextSizes], tz \in [1..n -> TitleSizes] }

NoStep == [um0 |-> "", acc0 |-> <<>>, tries |-> 0, result |-> "none"]

NoAttempt == [kind |-> "none", text |-> <<"">>, duration |-> 0]

\* No project context is involved in a run of the pipeline alone.
NoAnswer ==
    [op |-> "none", from |-> [kind |-> "none", value |-> 0],
     to |-> [kind |-> "none", value |-> 0], category |-> "None",
     result |-> Returned(<<>>)]

ContextAbsent ==
    /\ file = <<>>
    /\ closed_tasks = <<>>
    /\ git_logs = <<>>
    /\ daily_stats = <<>>
    /\ stage = "absent"
    /\ answer = NoAnswer

\* The predicted_tasks folder is empty and no caller holds a task list.
NoFiles == [f \in {} |-> <<>>]

FirstYear == 2025

AggregatorIdle ==
    /\ stream = <<>>
    /\ predicted_tasks = NoFiles
    /\ clock = FirstYear
    /\ outcomes = <<>>

\* The frame of a call of analyze_git_logs: the log it was given, its
\* locals and position, what its caller has received, its open backend calls.
FrameOf(l, c, p, idx, att, t, um, acc, ttime, y, agg, err, st, req, lst, suc, fl) ==
    [logs |-> l, commits |-> c, pc |-> p, i |-> idx, attempts |-> att,
     tasks |-> t, unfinished_moves |-> um, tasks_doiting |-> acc,
     total__time |-> ttime, yielded |-> y, aggregated |-> agg, error |-> err,
     step |-> st, requests |-> req, last |-> lst, succeeded |-> suc,
     in_flight |-> fl]

\* The frame of a call whose first next() has not been made.
NewFrame(l) ==
    FrameOf(l, <<>>, "idle", 0, 0, Unbound, "", <<>>, 0, <<>>, <<>>, "none",
            NoStep, <<>>, NoAttempt, <<>>, 0)

\* self.last_handle_speed: no such attribute until line 103 has run.
NoSpeed == [written |-> FALSE, total__time |-> 0]

Speed(ttime) == [written |-> TRUE, total__time |-> ttime]

\* One run, no second call of analyze_git_logs, no backend call open.
SingleRun ==
    /\ other = NewFrame(<<>>)
    /\ runs = 0
    /\ last_handle_speed = NoSpeed
    /\ in_flight = 0

Init ==
    /\ logs \in UNION { LogsOfLen(n) : n \in 0..MaxCommits }
    /\ commits = <<>>
    /\ pc = "idle"
    /\ i = 0
    /\ attempts = 0
    /\ tasks = Unbound
    /\ unfinished_moves = ""
    /\ tasks_doiting = <<>>
    /\ total__time = 0
    /\ yielded = <<>>
    /\ aggregated = <<>>
    /\ error = "none"
    /\ step = NoStep
    /\ requests = <<>>
    /\ last = NoAttempt
    /\ succeeded = <<>>
    /\ ContextAbsent
    /\ AggregatorIdle
    /\ SingleRun

\* for i in range(2, len(commits)): attempts = 3, or the loop is over.
EnterLoop(next, n, um, acc) ==
    IF next < n
    THEN /\ pc' = "attempt"
         /\ i' = next
         /\ attempts' = Attempts
         /\ step' = [um0 |-> um, acc0 |-> acc, tries |-> 0, result |-> "pending"]
         /\ last' = NoAttempt
    ELSE /\ pc' = "finish"
         /\ UNCHANGED <<i, attempts, step, last>>

\* The caller's first next(): lines 72-81 and the loop head. tasks is not
\* assigned before the first success of the run.
Start ==
    /\ pc = "idle"
    /\ Len(logs) > 0
    /\ commits' = Reverse(logs)
    /\ tasks' = Unbound
    /\ tasks_doiting' = <<>>
    /\ unfinished_moves' = ""
    /\ total__time' = 0
    /\ EnterLoop(2, Len(logs), unfinished_moves', tasks_doiting')
    /\ UNCHANGED <<logs, yielded, aggregated, error, requests, succeeded>>
    /\ UNCHANGED outsidePipeline

\* Line 76 on an empty log: commits[0] raises IndexError.
StartEmpty ==
    /\ pc = "idle"
    /\ Len(logs) = 0
    /\ commits' = Reverse(logs)
    /\ pc' = "aborted"
    /\ error' = "IndexError"
    /\ UNCHANGED <<logs, i, attempts, tasks, unfinished_moves, tasks_doiting,
                   total__time, yielded, aggregated, step, requests, last,
                   succeeded>>
    /\ UNCHANGED outsidePipeline

\* One pass of the while loop for commit i, given the backend's behaviour.
AttemptStep(backend) ==
    LET commit == commits[i + 1]
        resp == AnalyzeCommit(commit, unfinished_moves, backend)
        r == TryBody(resp, commit, tasks, unfinished_moves, tasks_doiting,
                     total__time)
        left == IF r.ok THEN attempts ELSE attempts - 1
        goto == AfterPass(r.ok, left)
    IN  /\ tasks' = r.tasks
        /\ unfinished_moves' = r.unfinished_moves
        /\ tasks_doiting' = r.tasks_doiting
        /\ total__time' = r.total__time
        /\ attempts' = left
        /\ pc' = goto
        /\ requests' = IF resp.kind = "tuple"
                       THEN requests
                       ELSE Append(requests,
                                   [commit |-> i,
                                    unfinished_moves |-> unfinished_moves,
                                    size |-> RequestSize(commit, unfinished_moves)])
        /\ step' = [step EXCEPT !.tries = @ + 1,
                                !.result = IF r.ok THEN "success"
                                           ELSE IF goto = "attempt" THEN "pending"
                                           ELSE "exhausted"]
        /\ last' = resp
        /\ succeeded' = IF r.ok
                        THEN Append(succeeded,
                                    [commit |-> i, tasks |-> r.tasks.value,
                                     unfinished_moves |-> r.unfinished_moves])
                        ELSE succeeded
        /\ UNCHANGED <<logs, commits, i, yielded, aggregated, error>>

AttemptOversized ==
    /\ pc = "attempt"
    /\ Oversized(commits[i + 1], unfinished_moves)
    /\ AttemptStep(BackendRaises)
    /\ UNCHANGED outsidePipeline

AttemptBackendRaises ==
    /\ pc = "attempt"
    /\ ~Oversized(commits[i + 1], unfinished_moves)
    /\ AttemptStep(BackendRaises)
    /\ UNCHANGED outsidePipeline

AttemptBackendReplies ==
    /\ pc = "attempt"
    /\ ~Oversized(commits[i + 1], unfinished_moves)
    /\ \E text \in Replies, d \in Durations : AttemptStep(BackendReturns(text, d))
    /\ UNCHANGED outsidePipeline

\* A mutant of AtYield: the generator goes on without its caller.
AtYieldGoesOn(p) == "attempt"

\* A generator that has yielded is suspended until its caller's next().
AtYield(p) == "suspended"

\* Line 98, yield tasks, None: the batch goes to the caller.
Yield ==
    /\ pc = "yield"
    /\ tasks.bound
    /\ yielded' = Append(yielded, [commit |-> i, tasks |-> tasks.value])
    /\ pc' = AtYield(pc)
    /\ UNCHANGED <<logs, commits, i, attempts, tasks, unfinished_moves,
                   tasks_doiting, total__time, aggregated, error, step,
                   requests, last, succeeded>>
    /\ UNCHANGED outsidePipeline

\* Line 98 when no attempt has succeeded yet in this run: tasks is unbound.
YieldUnbound ==
    /\ pc = "yield"
    /\ ~tasks.bound
    /\ pc' = "aborted"
    /\ error' = "UnboundLocalError"
    /\ UNCHANGED <<logs, commits, i, attempts, tasks, unfinished_moves,
                   tasks_doiting, total__time, yielded, aggregated, step,
                   requests, last, succeeded>>
    /\ UNCHANGED outsidePipeline

\* A mutant of NextIndex: the loop stays on the commit it has finished.
NextIndexStays(idx) == idx

\* range(2, len(commits)) of line 82 hands out the next index.
NextIndex(idx) == idx + 1

\* The caller asks for the next batch.
Pull ==
    /\ pc = "suspended"
    /\ EnterLoop(NextIndex(i), Len(commits), unfinished_moves, tasks_doiting)
    /\ UNCHANGED <<logs, commits, tasks, unfinished_moves, tasks_doiting,
                   total__time, yielded, aggregated, error, requests,
                   succeeded>>
    /\ UNCHANGED outsidePipeline

\* The caller stops pulling.
Abandon ==
    /\ pc = "suspended"
    /\ pc' = "stopped"
    /\ UNCHANGED <<logs, commits, i, attempts, tasks, unfinished_moves,
                   tasks_doiting, total__time, yielded, aggregated, error,
                   step, requests, last, succeeded>>
    /\ UNCHANGED outsidePipeline

\* Lines 100-101 when no response was ever received: total_chars / 0.
FinishZeroDivision ==
    /\ pc = "finish"
    /\ total__time = 0
    /\ pc' = "aborted"
    /\ error' = "ZeroDivisionError"
    /\ UNCHANGED <<logs, commits, i, attempts, tasks, unfinished_moves,
                   tasks_doiting, total__time, yielded, aggregated, step,
                   requests, last, succeeded>>
    /\ UNCHANGED outsidePipeline

\* Lines 100-104: the accumulated list is handed to update_project_data.
FinishAggregate ==
    /\ pc = "finish"
    /\ total__time # 0
    /\ aggregated' = Append(aggregated, tasks_doiting)
    /\ LET u == UpdateProjectData(tasks_doiting, predicted_tasks, clock)
       IN  IF u.ok
           THEN /\ pc' = "done" /\ error' = error
                /\ predicted_tasks' = u.value
                /\ last_handle_speed' = Speed(total__time)
           ELSE /\ pc' = "aborted" /\ error' = u.exc
                /\ predicted_tasks' = predicted_tasks
                /\ last_handle_speed' = last_handle_speed
    /\ UNCHANGED <<logs, commits, i, attempts, tasks, unfinished_moves,
                   tasks_doiting, total__time, yielded, step, requests, last,
                   succeeded>>
    /\ UNCHANGED <<contextVars, stream, clock, outcomes, other, runs, in_flight>>

Next ==
    \/ Start
    \/ StartEmpty
    \/ AttemptOversized
    \/ AttemptBackendRaises
    \/ AttemptBackendReplies
    \/ Yield
    \/ YieldUnbound
    \/ Pull
    \/ Abandon
    \/ FinishZeroDivision
    \/ FinishAggregate

Spec == Init /\ [][Next]_vars

\* ============================================================ project context
\* src/app/utils.py (load_git_logs) and src/app/context_keeper.py (PMContext).
\*
\* The text of git.logs is a sequence of lines, and a line is the sequence of
\* its words, written with single blanks between them: str.split() of a line
\* is the line itself, the empty line is <<>>, and a line begins with a given
\* one-character word exactly when that word is its first word (no other word
\* of the input alphabet begins with a plus or a minus sign).

\* ---------------------------------------------------------------- bounds
MaxBlocks == 3    \* commit blocks in git.logs

\* ---------------------------------------------------------------- results
\* pandas NaT, and a parsed instant counted in hours.
NaT == [valid |-> FALSE, value |-> 0]

At(n) == [valid |-> TRUE, value |-> n]

HoursPerDay == 24

\* pd.to_datetime(..., errors="coerce") on the words after the Date: token:
\* the instants of the strings it can parse, NaT for every other string.
DateTable ==
    (<<"d1", "h9">> :> 33) @@ (<<"d1", "h17">> :> 41) @@ (<<"d2", "h9">> :> 57)

ToDatetime(words) ==
    IF words \in DOMAIN DateTable THEN At(DateTable[words]) ELSE NaT

\* A mutant of DateOf: NaT is given the day of the instant zero.
DateOfNaTIsDayZero(d) == At(d.value \div HoursPerDay)

\* Series.dt.date: the calendar day of an instant, NaT staying NaT.
DateOf(d) == IF d.valid THEN At(d.value \div HoursPerDay) ELSE NaT

\* ---------------------------------------------------------- load_git_logs
\* line.startswith(ch) for a one-character word ch.
StartsWith(line, ch) == Len(line) > 0 /\ line[1] = ch

\* The places where the separator of line 31 matches: an empty line that
\* follows some line and is followed by a line beginning with commit and a
\* blank. k is the index of the empty line.
Delimiters(text) ==
    { k \in 2..(Len(text) - 1) :
        /\ text[k] = <<>>
        /\ Len(text[k + 1]) >= 2
        /\ text[k + 1][1] = "commit" }

MinOf(S) == CHOOSE k \in S : \A m \in S : k <= m

\* str.split of line 31, from the chunk whose first line is first and whose
\* next lines begin at index from. The separator takes the end of the line
\* before the empty line, the empty line and the word commit with its blank.
RECURSIVE SplitFrom(_, _, _)
SplitFrom(text, first, from) ==
    LET later == { k \in Delimiters(text) : k >= from }
    IN  IF later = {}
        THEN << <<first>> \o SubSeq(text, from, Len(text)) >>
        ELSE LET k == MinOf(later)
             IN  << <<first>> \o SubSeq(text, from, k - 1) >>
                 \o SplitFrom(text, Tail(text[k + 1]), k + 2)

SplitCommits(text) == SplitFrom(text, text[1], 2)

\* len([line for line in c.split(newline) if line.startswith(ch)])
CountStarting(c, ch) == Cardinality({ k \in 1..Len(c) : StartsWith(c[k], ch) })

\* Lines 33-40 and 43-45 for one chunk c: c[2] is the code's
\* c.split(newline)[1], c[3] its [2] and c[5] its [4]. A missing line, or an
\* author line of fewer than two words, raises IndexError. The date column
\* is the index of the frame (line 46); the timestamp column repeats it
\* (line 45, pd.Timestamp of NaT being NaT).
CommitRow(c) ==
    IF Len(c) < 2 \/ Len(c[2]) < 2 \/ Len(c) < 3 \/ Len(c) < 5
    THEN Raised("IndexError")
    ELSE LET date == ToDatetime(IF c[3] = <<>> THEN <<>> ELSE Tail(c[3]))
         IN  Returned([text |-> c,
                       author |-> c[2][2],
                       date |-> date,
                       title |-> c[5],
                       insertions |-> CountStarting(c, "+"),
                       deletions |-> CountStarting(c, "-"),
                       day |-> DateOf(date),
                       timestamp |-> date])

\* load_git_logs: the frame has one row per chunk of the split, in order;
\* the first chunk that cannot be read raises out of the comprehension.
LoadGitLogs(text) ==
    LET cs == SplitCommits(text)
    IN  IF \E k \in 1..Len(cs) : ~CommitRow(cs[k]).ok
        THEN Raised("IndexError")
        ELSE Returned([k \in 1..Len(cs) |-> CommitRow(cs[k]).value])

\* ------------------------------------------------------ load_closed_tasks
\* A file of historical tasks: the tokens of its stem between underscores
\* and its lines, each a text, a blank, a category code and a newline, so
\* that line[:-3] is the text and line.strip()[-1] the code.
TaskFile(stem, lines) == [stem |-> stem, lines |-> lines]

TaskLine(text, code) == [text |-> text, code |-> code]

\* datetime.strptime(name, "%B").month for the month names of the inputs.
MonthNumber == ("February" :> 2) @@ ("October" :> 10)

\* datetime(year, month, 30, 21, 20, 0) of line 22: no month 2 has a day 30.
SyntheticFinish(year, month) ==
    IF month = 2
    THEN Raised("ValueError")
    ELSE Returned([year |-> year, month |-> month, day |-> 30,
                   hour |-> 21, minute |-> 20])

\* Lines 16-23 for one line: the keyword arguments are evaluated in order,
\* then the constructor is called with keywords only.
LoadTaskLine(stem, line, year) ==
    IF line.code \notin Category
    THEN Raised("ValueError")
    ELSE IF stem[1] \notin DOMAIN MonthNumber
    THEN Raised("ValueError")
    ELSE IF ~SyntheticFinish(year, MonthNumber[stem[1]]).ok
    THEN Raised("ValueError")
    ELSE ClosedTask(<<>>,
            [text |-> line.text,
             category |-> line.code,
             estimated_time |-> "None",
             min_skill_level |-> "None",
             planned_at |-> "None",
             started_at |-> "None",
             finished_at |-> SyntheticFinish(year, MonthNumber[stem[1]]).value])

\* The lines of the files of a folder, each with the stem of its file, in
\* the order load_closed_tasks reads them.
RECURSIVE LinesOf(_)
LinesOf(folder) ==
    IF folder = <<>> THEN <<>>
    ELSE [k \in 1..Len(folder[1].lines) |->
             [stem |-> folder[1].stem, line |-> folder[1].lines[k]]]
         \o LinesOf(Tail(folder))

\* load_closed_tasks, lines 10-27: the first line that raises ends the load.
LoadClosedTasks(folder, year) ==
    LET ls == LinesOf(folder)
        made == [k \in 1..Len(ls) |-> LoadTaskLine(ls[k].stem, ls[k].line, year)]
    IN  IF \E k \in 1..Len(ls) : ~made[k].ok
        THEN Raised(made[MinOf({ k \in 1..Len(ls) : ~made[k].ok })].exc)
        ELSE Returned([k \in 1..Len(ls) |-> made[k].value])

\* ClosedTask.__str__, models.py 73-79, as the words of its first line: the
\* text and the printed enum member.
TaskString(task) == <<task.text, <<"Category", task.category>> >>

\* ------------------------------------------------------------- PMContext
\* Words whose lower-case form contains initial, init or first (line 36).
BootstrapWords == {"init", "Initial", "first"}

\* A mutant of DropBootstrap: the first row is dropped even when it is alone.
DropBootstrapEvenAlone(rows) ==
    IF \E k \in 1..Len(rows[1].title) : rows[1].title[k] \in BootstrapWords
    THEN Tail(rows)
    ELSE rows

\* _preprocess_data, lines 31-37: the first row is dropped when the frame has
\* more than one row and its title holds one of the keywords.
DropBootstrap(rows) ==
    IF Len(rows) > 1 /\ \E k \in 1..Len(rows[1].title) :
                            rows[1].title[k] \in BootstrapWords
    THEN Tail(rows)
    ELSE rows

RECURSIVE Sum(_)
Sum(s) == IF s = <<>> THEN 0 ELSE Head(s) + Sum(Tail(s))

RECURSIVE Ascending(_)
Ascending(S) ==
    IF S = {} THEN <<>> ELSE <<MinOf(S)>> \o Ascending(S \ {MinOf(S)})

\* The rows of one group of groupby("day").
OfDay(rows, d) == SelectSeq(rows, LAMBDA r : r.day = At(d))

Insertions(rows) == [k \in 1..Len(rows) |-> rows[k].insertions]

Deletions(rows) == [k \in 1..Len(rows) |-> rows[k].deletions]

\* The quotient of line 57, kept as the fraction num / den.
Fraction(n, d) == [num |-> n, den |-> d]

\* A mutant of DailyRow: the average is taken over the insertions alone.
DailyRowAveragesInsertions(rows, d) ==
    LET g == OfDay(rows, d)
    IN  [day |-> d,
         commits |-> Len(g),
         insertions |-> Sum(Insertions(g)),
         deletions |-> Sum(Deletions(g)),
         net_changes |-> Sum(Insertions(g)) - Sum(Deletions(g)),
         avg_commit_size |-> Fraction(Sum(Insertions(g)), Len(g))]

\* Lines 46-57 for the group of day d.
DailyRow(rows, d) ==
    LET g == OfDay(rows, d)
        ins == Sum(Insertions(g))
        del == Sum(Deletions(g))
    IN  [day |-> d,
         commits |-> Len(g),
         insertions |-> ins,
         deletions |-> del,
         net_changes |-> ins - del,
         avg_commit_size |-> Fraction(ins + del, Len(g))]

\* _calculate_daily_stats: groupby sorts the days and leaves NaT out.
CalculateDailyStats(rows) ==
    LET days == Ascending({ rows[k].day.value :
                              k \in { j \in 1..Len(rows) : rows[j].day.valid } })
    IN  [k \in 1..Len(days) |-> DailyRow(rows, days[k])]

\* The arguments of the queries: None, a datetime (an instant) or a date (a
\* calendar day).
NoDate == [kind |-> "none", value |-> 0]

Datetime(n) == [kind |-> "datetime", value |-> n]

Date(d) == [kind |-> "date", value |-> d]

NoCategory == "None"

\* get_tasks, lines 67-86. from_date.timestamp() exists for a datetime only.
GetTasks(closed, from, to, category) ==
    IF from.kind = "date" \/ to.kind = "date"
    THEN Raised("AttributeError")
    ELSE Returned(SelectSeq(closed, LAMBDA task :
            /\ ~(from.kind # "none" /\ task.finished_at # 0
                    /\ task.finished_at > from.value)
            /\ ~(to.kind # "none" /\ task.finished_at # 0
                    /\ task.finished_at < to.value)
            /\ ~(category # NoCategory /\ task.category # category)))

\* One comparison of lines 100 and 102 between the day column and a bound:
\* a day that is NaT compares false, a date compares with a date.
DayAtLeast(day, bound) == day.valid /\ day.value >= bound.value

DayAtMost(day, bound) == day.valid /\ day.value <= bound.value

\* get_logs, lines 94-104. The day column holds datetime.date objects, and
\* Python refuses to order a date and a datetime: TypeError.
GetLogs(rows, from, to) ==
    IF rows = <<>>
    THEN Returned(<<>>)
    ELSE IF /\ \E k \in 1..Len(rows) : rows[k].day.valid
            /\ (from.kind = "datetime" \/ to.kind = "datetime")
    THEN Raised("TypeError")
    ELSE Returned(SelectSeq(rows, LAMBDA r :
            /\ (from.kind # "none" => DayAtLeast(r.day, from))
            /\ (to.kind # "none" => DayAtMost(r.day, to))))

\* get_daily_stats, line 108.
GetDailyStats(stats) == Returned(stats)

CountOf(closed, cat) == Len(SelectSeq(closed, LAMBDA t : t.category = cat))

\* min and max of lines 116-119 over a non-empty set.
MaxOf(S) == CHOOSE k \in S : \A m \in S : k >= m

\* get_summary, lines 112-125. With no task that has a finished_at, min and
\* max return their default None and datetime.fromtimestamp(None) raises
\* TypeError before the dict is built.
GetSummary(closed, rows) ==
    LET finished == { closed[k].finished_at :
                        k \in { j \in 1..Len(closed) : closed[j].finished_at # 0 } }
        dates == { rows[k].date.value :
                        k \in { j \in 1..Len(rows) : rows[j].date.valid } }
    IN  IF finished = {}
        THEN Raised("TypeError")
        ELSE Returned(
            [total_tasks |-> Len(closed),
             total_commits |-> Len(rows),
             date_range |->
               [first_task |-> MinOf(finished),
                last_task |-> MaxOf(finished),
                first_commit |-> IF dates = {} THEN NaT ELSE At(MinOf(dates)),
                last_commit |-> IF dates = {} THEN NaT ELSE At(MaxOf(dates))],
             categories |-> [cat \in Category |-> CountOf(closed, cat)]])

\* ---------------------------------------------------------------- inputs
\* A commit block as a log export writes it: the commit line, the author
\* line, the date line, an empty line, the title, then the lines of the diff.
Block(hash, date, title, diff) ==
    << <<"commit", hash>>, <<"Author:", "ann", "<a@x>">>, <<"Date:">> \o date,
       <<>>, title >> \o diff

Blocks ==
    { Block("a1", <<"d1", "h9">>, <<"init", "repo">>, << <<"+", "x">> >>),
      Block("b2", <<"d1", "h17">>, <<"add", "api">>,
            << <<"+", "x">>, <<"-", "y">>, <<"ctx">> >>),
      Block("c3", <<"d2", "h9">>, <<"-", "drop", "x">>, << <<"-", "y">> >>),
      Block("d4", <<"soon">>, <<"add", "ui">>, << <<"+", "x">>, <<"+", "z">> >>),
      \* a block whose title line is absent
      << <<"commit", "e5">>, <<"Author:", "ann", "<a@x>">>,
         <<"Date:", "d2", "h9">> >>,
      \* a line that belongs to no commit: a preamble when it comes first
      << <<"#", "export">> >> }

\* The blocks of a file follow each other after one empty line.
RECURSIVE Join(_)
Join(bs) ==
    IF Len(bs) = 1 THEN bs[1] ELSE bs[1] \o << <<>> >> \o Join(Tail(bs))

Files == { Join(bs) : bs \in UNION { [1..n -> Blocks] : n \in 1..MaxBlocks } }

\* The tasks a context may hold: text, category and finished_at, the fields
\* the queries read.
Task(text, category, finished_at) ==
    [text |-> text, category |-> category, finished_at |-> finished_at]

TaskLists ==
    { <<>>,
      <<Task("api", "B", 30), Task("ui", "F", 50), Task("ci", "B", 70)>>,
      <<Task("ci", "B", 70), Task("api", "B", 30)>> }

\* The closed_tasks folders read by load_closed_tasks, and the current year.
Folders ==
    { <<>>,
      << TaskFile(<<"October", "tasks">>, <<>>) >>,
      << TaskFile(<<"October", "tasks">>,
                  <<TaskLine("api", "B"), TaskLine("ui", "F")>>) >>,
      << TaskFile(<<"February", "tasks">>, <<TaskLine("ci", "I")>>) >>,
      << TaskFile(<<"October", "tasks">>, <<TaskLine("api", "X")>>) >>,
      << TaskFile(<<"notes">>, <<TaskLine("api", "B")>>) >> }

Years == {2025, 2026}

TaskBounds == {NoDate, Datetime(40), Datetime(60)}

TaskCategories == {NoCategory, "B"}

LogBounds == {NoDate, Date(2), Datetime(41)}

\* --------------------------------------------------------------- actions
Asked(op, from, to, category, result) ==
    [op |-> op, from |-> from, to |-> to, category |-> category,
     result |-> result]

\* PMContext.__init__, lines 21-25, when load_git_logs returns.
Construct ==
    /\ stage = "new"
    /\ LoadGitLogs(file).ok
    /\ git_logs' = DropBootstrap(LoadGitLogs(file).value)
    /\ daily_stats' = CalculateDailyStats(git_logs')
    /\ stage' = "ready"
    /\ UNCHANGED <<file, closed_tasks, answer>>
    /\ UNCHANGED outsideContext

\* PMContext.__init__ when load_git_logs raises: no context exists.
ConstructRaises ==
    /\ stage = "new"
    /\ ~LoadGitLogs(file).ok
    /\ stage' = "failed"
    /\ answer' = Asked("PMContext", NoDate, NoDate, NoCategory, LoadGitLogs(file))
    /\ UNCHANGED <<file, closed_tasks, git_logs, daily_stats>>
    /\ UNCHANGED outsideContext

CallGetTasks ==
    /\ stage = "ready"
    /\ \E from \in TaskBounds, to \in TaskBounds, category \in TaskCategories :
         answer' = Asked("get_tasks", from, to, category,
                         GetTasks(closed_tasks, from, to, category))
    /\ UNCHANGED <<file, closed_tasks, git_logs, daily_stats, stage>>
    /\ UNCHANGED outsideContext

CallGetLogs ==
    /\ stage = "ready"
    /\ \E from \in LogBounds, to \in LogBounds :
         answer' = Asked("get_logs", from, to, NoCategory,
                         GetLogs(git_logs, from, to))
    /\ UNCHANGED <<file, closed_tasks, git_logs, daily_stats, stage>>
    /\ UNCHANGED outsideContext

CallGetDailyStats ==
    /\ stage = "ready"
    /\ answer' = Asked("get_daily_stats", NoDate, NoDate, NoCategory,
                       GetDailyStats(daily_stats))
    /\ UNCHANGED <<file, closed_tasks, git_logs, daily_stats, stage>>
    /\ UNCHANGED outsideContext

CallGetSummary ==
    /\ stage = "ready"
    /\ answer' = Asked("get_summary", NoDate, NoDate, NoCategory,
                       GetSummary(closed_tasks, git_logs))
    /\ UNCHANGED <<file, closed_tasks, git_logs, daily_stats, stage>>
    /\ UNCHANGED outsideContext

\* load_closed_tasks called on a folder.
CallLoadClosedTasks ==
    /\ stage = "ready"
    /\ \E folder \in Folders, year \in Years :
         answer' = [Asked("load_closed_tasks", NoDate, NoDate, NoCategory,
                          LoadClosedTasks(folder, year))
                    EXCEPT !.from = [kind |-> "folder", value |-> year,
                                     folder |-> folder]]
    /\ UNCHANGED <<file, closed_tasks, git_logs, daily_stats, stage>>
    /\ UNCHANGED outsideContext

\* A context about to be built over a git.logs file and a list of tasks; no
\* pipeline runs.
ContextInit ==
    /\ file \in Files
    /\ closed_tasks \in TaskLists
    /\ git_logs = <<>>
    /\ daily_stats = <<>>
    /\ stage = "new"
    /\ answer = NoAnswer
    /\ logs = <<>>
    /\ commits = <<>>
    /\ pc = "idle"
    /\ i = 0
    /\ attempts = 0
    /\ tasks = Unbound
    /\ unfinished_moves = ""
    /\ tasks_doiting = <<>>
    /\ total__time = 0
    /\ yielded = <<>>
    /\ aggregated = <<>>
    /\ error = "none"
    /\ step = NoStep
    /\ requests = <<>>
    /\ last = NoAttempt
    /\ succeeded = <<>>
    /\ AggregatorIdle
    /\ SingleRun

ContextNext ==
    \/ Construct
    \/ ConstructRaises
    \/ CallGetTasks
    \/ CallGetLogs
    \/ CallGetDailyStats
    \/ CallGetSummary
    \/ CallLoadClosedTasks

ContextSpec == ContextInit /\ [][ContextNext]_vars

\* ================================================================ aggregator
\* update_project_data called by a holder of a task list, as many times as
\* MaxRuns allows, over the same predicted_tasks folder.
MaxStream == 2    \* tasks in the list
MaxRuns == 2      \* calls of update_project_data

AggregatedTask(text, category, finished_at) ==
    [text |-> text, category |-> category, finished_at |-> finished_at]

StreamTasks ==
    { AggregatedTask("api", "B", Dated(2024, 10)),
      AggregatedTask("ui", "F", Dated(2025, 10)),
      AggregatedTask("ci", "I", Dated(2025, 11)),
      AggregatedTask("doc", "B", Undated) }

Streams == UNION { [1..n -> StreamTasks] : n \in 0..MaxStream }

\* One call of update_project_data on the list.
CallUpdateProjectData ==
    /\ Len(outcomes) < MaxRuns
    /\ LET u == UpdateProjectData(stream, predicted_tasks, clock)
           dir == IF u.ok THEN u.value ELSE predicted_tasks
       IN  /\ predicted_tasks' = dir
           /\ outcomes' = Append(outcomes,
                                 [ok |-> u.ok, exc |-> u.exc, dir |-> dir,
                                  year |-> clock])
    /\ UNCHANGED <<stream, clock>>
    /\ UNCHANGED <<pipelineVars, contextVars, runVars>>

\* The year changes between two calls.
NewYear ==
    /\ clock + 1 \in Years
    /\ clock' = clock + 1
    /\ UNCHANGED <<stream, predicted_tasks, outcomes>>
    /\ UNCHANGED <<pipelineVars, contextVars, runVars>>

AggregatorInit ==
    /\ stream \in Streams
    /\ predicted_tasks = NoFiles
    /\ clock = FirstYear
    /\ outcomes = <<>>
    /\ ContextAbsent
    /\ logs = <<>>
    /\ commits = <<>>
    /\ pc = "idle"
    /\ i = 0
    /\ attempts = 0
    /\ tasks = Unbound
    /\ unfinished_moves = ""
    /\ tasks_doiting = <<>>
    /\ total__time = 0
    /\ yielded = <<>>
    /\ aggregated = <<>>
    /\ error = "none"
    /\ step = NoStep
    /\ requests = <<>>
    /\ last = NoAttempt
    /\ succeeded = <<>>
    /\ SingleRun

AggregatorNext ==
    \/ CallUpdateProjectData
    \/ NewYear

AggregatorSpec == AggregatorInit /\ [][AggregatorNext]_vars

\* A later run of the pipeline hands update_project_data the list of that
\* run, over the same predicted_tasks folder.
NextStream ==
    /\ outcomes # <<>>
    /\ Len(outcomes) < MaxRuns
    /\ stream' \in Streams \ {stream}
    /\ UNCHANGED <<predicted_tasks, clock, outcomes>>
    /\ UNCHANGED <<pipelineVars, contextVars, runVars>>

FolderNext ==
    \/ CallUpdateProjectData
    \/ NewYear
    \/ NextStream

FolderSpec == AggregatorInit /\ [][FolderNext]_vars

\* ==================================================================== driver
\* The module-level code of git_reverse_analyst.py: it imports the context
\* built by context_keeper.py over git.logs, takes the reference tasks and
\* the log from it, filters the log and pulls every batch of
\* analyze_git_logs.

\* len of a word, a line and a text in characters: words are joined by one
\* blank and lines by one newline. The word blob stands for a word of
\* BlobLen characters.
BlobLen == 90000

WordLen(w) == IF w = "blob" THEN BlobLen ELSE Len(w)

RECURSIVE LineLen(_)
LineLen(line) ==
    IF line = <<>> THEN 0
    ELSE IF Len(line) = 1 THEN WordLen(line[1])
    ELSE WordLen(line[1]) + 1 + LineLen(Tail(line))

RECURSIVE TextLen(_)
TextLen(text) ==
    IF text = <<>> THEN 0
    ELSE IF Len(text) = 1 THEN LineLen(text[1])
    ELSE LineLen(text[1]) + 1 + TextLen(Tail(text))

\* The title the driver takes out of the log, line 168.
FilteredTitle == <<"initial", "commit">>

\* A record of logs.to_dict(records) for a row of the context's frame, with
\* the text_size column of line 72; hash is the last word of the first line
\* of the chunk.
DriverCommit(r) ==
    [timestamp |-> r.timestamp,
     text_size |-> TextLen(r.text),
     title_size |-> LineLen(r.title),
     title |-> r.title,
     hash |-> r.text[1][Len(r.text[1])]]

\* Lines 167-168: context.get_logs() and the filter on the title. The empty
\* frame of get_logs has no title column.
DriverLogs(rows) ==
    LET got == GetLogs(rows, NoDate, NoDate)
    IN  IF ~got.ok THEN got
        ELSE IF rows = <<>> THEN Raised("KeyError")
        ELSE LET kept == SelectSeq(got.value,
                                   LAMBDA r : r.title # FilteredTitle)
             IN  Returned([k \in 1..Len(kept) |-> DriverCommit(kept[k])])

\* The bounds of line 165, datetime(2025, 10, 1) and datetime(2025, 11, 1),
\* on the scale of the finished_at of the tasks.
OctoberFirst == Datetime(40)

NovemberFirst == Datetime(60)

\* The files of the driver: five commits c1 (the oldest) to c5 with the
\* bootstrap commit c1, written newest first as git log does or oldest
\* first; three commits of which the newest holds a blob; the bootstrap
\* commit alone; two commits; a file whose second block has no title line.
DriverBlock(hash, title, diff) == Block(hash, <<"d1", "h9">>, title, diff)

FiveNewestFirst ==
    Join(<< DriverBlock("c5", <<"add", "ui">>, << <<"+", "x">> >>),
            DriverBlock("c4", <<"fix", "api">>, << <<"-", "y">> >>),
            DriverBlock("c3", <<"add", "api">>, << <<"+", "x">> >>),
            DriverBlock("c2", <<"add", "ci">>, << <<"+", "z">> >>),
            DriverBlock("c1", FilteredTitle, << <<"+", "x">> >>) >>)

FiveOldestFirst ==
    Join(<< DriverBlock("c1", FilteredTitle, << <<"+", "x">> >>),
            DriverBlock("c2", <<"add", "ci">>, << <<"+", "z">> >>),
            DriverBlock("c3", <<"add", "api">>, << <<"+", "x">> >>),
            DriverBlock("c4", <<"fix", "api">>, << <<"-", "y">> >>),
            DriverBlock("c5", <<"add", "ui">>, << <<"+", "x">> >>) >>)

DriverFiles ==
    { FiveNewestFirst,
      FiveOldestFirst,
      Join(<< DriverBlock("c3", <<"add", "img">>, << <<"+", "blob">> >>),
              DriverBlock("c2", <<"add", "ci">>, << <<"+", "z">> >>),
              DriverBlock("c1", <<"start">>, << <<"+", "x">> >>) >>),
      DriverBlock("c1", FilteredTitle, << <<"+", "x">> >>),
      Join(<< DriverBlock("c2", <<"add", "ci">>, << <<"+", "z">> >>),
              DriverBlock("c1", <<"start">>, << <<"+", "x">> >>) >>),
      Join(<< DriverBlock("c2", <<"add", "ci">>, << <<"+", "z">> >>),
              << <<"commit", "c1">>, <<"Author:", "ann", "<a@x>">> >> >>) }

DriverTaskLists ==
    { <<>>,
      <<Task("api", "B", 30), Task("ui", "F", 50), Task("ci", "B", 70)>> }

\* context_keeper.py lines 128-131, run by the import of line 162 once the
\* context is built: print(context.get_summary()).
ImportSummary ==
    /\ stage = "ready"
    /\ LET summary == GetSummary(closed_tasks, git_logs)
       IN  /\ stage' = IF summary.ok THEN "imported" ELSE "failed"
           /\ answer' = Asked("get_summary", NoDate, NoDate, NoCategory,
                              summary)
    /\ UNCHANGED <<file, closed_tasks, git_logs, daily_stats>>
    /\ UNCHANGED outsideContext

\* Lines 165-168: the reference tasks, the analyst and the filtered log.
\* The reference tasks are those without finished_at (a dated task is past
\* the first bound or before the second), none of the lists here: the
\* prompts are those of an empty reference list.
Handover ==
    /\ stage = "imported"
    /\ GetTasks(closed_tasks, OctoberFirst, NovemberFirst, NoCategory).ok
    /\ GetTasks(closed_tasks, OctoberFirst, NovemberFirst, NoCategory).value = <<>>
    /\ LET got == DriverLogs(git_logs)
       IN  /\ stage' = IF got.ok THEN "handed" ELSE "failed"
           /\ logs' = IF got.ok THEN got.value ELSE logs
           /\ answer' = Asked("get_logs", NoDate, NoDate, NoCategory,
                              GetLogs(git_logs, NoDate, NoDate))
    /\ UNCHANGED <<file, closed_tasks, git_logs, daily_stats>>
    /\ UNCHANGED <<commits, pc, i, attempts, tasks, unfinished_moves,
                   tasks_doiting, total__time, yielded, aggregated, error,
                   step, requests, last, succeeded>>
    /\ UNCHANGED <<aggregatorVars, runVars>>

\* Line 171: the for loop makes the first next() on the generator.
DriverStart == stage = "handed" /\ Start

DriverStartEmpty == stage = "handed" /\ StartEmpty

DriverInit ==
    /\ file \in DriverFiles
    /\ closed_tasks \in DriverTaskLists
    /\ git_logs = <<>>
    /\ daily_stats = <<>>
    /\ stage = "new"
    /\ answer = NoAnswer
    /\ logs = <<>>
    /\ commits = <<>>
    /\ pc = "idle"
    /\ i = 0
    /\ attempts = 0
    /\ tasks = Unbound
    /\ unfinished_moves = ""
    /\ tasks_doiting = <<>>
    /\ total__time = 0
    /\ yielded = <<>>
    /\ aggregated = <<>>
    /\ error = "none"
    /\ step = NoStep
    /\ requests = <<>>
    /\ last = NoAttempt
    /\ succeeded = <<>>
    /\ AggregatorIdle
    /\ SingleRun

\* The for loop of line 171 pulls until the generator ends: speed is None
\* in every batch, so the break of line 176 is never taken.
DriverNext ==
    \/ Construct
    \/ ConstructRaises
    \/ ImportSummary
    \/ Handover
    \/ DriverStart
    \/ DriverStartEmpty
    \/ AttemptOversized
    \/ AttemptBackendRaises
    \/ AttemptBackendReplies
    \/ Yield
    \/ YieldUnbound
    \/ Pull
    \/ FinishZeroDivision
    \/ FinishAggregate

DriverSpec == DriverInit /\ [][DriverNext]_vars

\* ====================================================================== runs
\* Two calls of analyze_git_logs on one analyst, their steps interleaved in
\* any order, and further calls made once a run is over. The variables of
\* the pipeline hold the frame of the run that is executing, other the frame
\* of the run that is not. A call of client.generate is a step that sends
\* the request and a step that receives the outcome.
MaxReruns == 1    \* calls of analyze_git_logs made after a run was over

\* The logs of the two runs: three or four commits for the first; for the
\* second three commits, three of which the newest is oversized, two, or
\* none. A call made after a run is over is given three commits.
RunLogs ==
    { [k \in 1..3 |-> Commit(4 - k, 120, 5)],
      [k \in 1..4 |-> Commit(5 - k, 120, 5)] }

OtherLogs ==
    { [k \in 1..3 |-> Commit(4 - k, 120, 5)],
      [k \in 1..3 |-> Commit(4 - k, IF k = 1 THEN 100001 ELSE 120, 5)],
      [k \in 1..2 |-> Commit(3 - k, 120, 5)],
      <<>> }

RerunLogs == { [k \in 1..3 |-> Commit(4 - k, 120, 5)] }

\* The replies of the backend to the runs: an empty carry-over, a carry-over
\* wip, a text that is no JSON.
RunReplies ==
    { <<"{\"tasks\": [], \"unfinished_moves\": \"\"}">>,
      <<"{\"tasks\": [], \"unfinished_moves\": \"wip\"}">>,
      <<"not json">> }

\* The frame of the run that is executing.
Frame ==
    FrameOf(logs, commits, pc, i, attempts, tasks, unfinished_moves,
            tasks_doiting, total__time, yielded, aggregated, error, step,
            requests, last, succeeded, in_flight)

\* A mutant of Resumed: the carry-over is an attribute shared by the runs.
ResumedSharesCarry(frame, running) ==
    [frame EXCEPT !.unfinished_moves = running.unfinished_moves]

\* The frame a run resumes with is the one it was suspended with: the
\* locals of a generator belong to it, and analyze_git_logs keeps nothing
\* of a run on the analyst before line 103.
Resumed(frame, running) == frame

\* A mutant of Waiting: generate returns before the outcome is there.
WaitingNot(p) == p

\* client.generate is a blocking call: the run waits for its outcome.
Waiting(p) == "generating"

\* Line 141: the request is sent.
BeginGenerate ==
    /\ pc = "attempt"
    /\ ~Oversized(commits[i + 1], unfinished_moves)
    /\ pc' = Waiting(pc)
    /\ in_flight' = in_flight + 1
    /\ UNCHANGED <<logs, commits, i, attempts, tasks, unfinished_moves,
                   tasks_doiting, total__time, yielded, aggregated, error,
                   step, requests, last, succeeded>>
    /\ UNCHANGED <<contextVars, aggregatorVars, other, runs, last_handle_speed>>

\* client.generate raises: the except branch of the pass.
EndGenerateRaises ==
    /\ pc = "generating"
    /\ in_flight' = in_flight - 1
    /\ AttemptStep(BackendRaises)
    /\ UNCHANGED <<contextVars, aggregatorVars, other, runs, last_handle_speed>>

\* client.generate returns a response: the rest of the pass.
EndGenerateReplies ==
    /\ pc = "generating"
    /\ in_flight' = in_flight - 1
    /\ \E text \in RunReplies, d \in Durations :
         AttemptStep(BackendReturns(text, d))
    /\ UNCHANGED <<contextVars, aggregatorVars, other, runs, last_handle_speed>>

\* The scheduler gives the processor to the other run.
Switch ==
    /\ LET f == Resumed(other, Frame)
       IN  /\ logs' = f.logs
           /\ commits' = f.commits
           /\ pc' = f.pc
           /\ i' = f.i
           /\ attempts' = f.attempts
           /\ tasks' = f.tasks
           /\ unfinished_moves' = f.unfinished_moves
           /\ tasks_doiting' = f.tasks_doiting
           /\ total__time' = f.total__time
           /\ yielded' = f.yielded
           /\ aggregated' = f.aggregated
           /\ error' = f.error
           /\ step' = f.step
           /\ requests' = f.requests
           /\ last' = f.last
           /\ succeeded' = f.succeeded
           /\ in_flight' = f.in_flight
    /\ other' = Frame
    /\ UNCHANGED <<contextVars, aggregatorVars, runs, last_handle_speed>>

\* The run is over and analyze_git_logs is called again on the analyst:
\* the caller has received nothing of the new run; the variables of the
\* locals hold what the run before left until the new run assigns them.
Rerun ==
    /\ pc \in {"done", "aborted", "stopped"}
    /\ runs < MaxReruns
    /\ runs' = runs + 1
    /\ logs' \in RerunLogs
    /\ pc' = "idle"
    /\ yielded' = <<>>
    /\ aggregated' = <<>>
    /\ error' = "none"
    /\ step' = NoStep
    /\ requests' = <<>>
    /\ last' = NoAttempt
    /\ succeeded' = <<>>
    /\ UNCHANGED <<commits, i, attempts, tasks, unfinished_moves,
                   tasks_doiting, total__time>>
    /\ UNCHANGED <<contextVars, aggregatorVars, other, last_handle_speed,
                   in_flight>>

RunsInit ==
    /\ logs \in RunLogs
    /\ commits = <<>>
    /\ pc = "idle"
    /\ i = 0
    /\ attempts = 0
    /\ tasks = Unbound
    /\ unfinished_moves = ""
    /\ tasks_doiting = <<>>
    /\ total__time = 0
    /\ yielded = <<>>
    /\ aggregated = <<>>
    /\ error = "none"
    /\ step = NoStep
    /\ requests = <<>>
    /\ last = NoAttempt
    /\ succeeded = <<>>
    /\ ContextAbsent
    /\ AggregatorIdle
    /\ other \in { NewFrame(l) : l \in OtherLogs }
    /\ runs = 0
    /\ last_handle_speed = NoSpeed
    /\ in_flight = 0

RunsNext ==
    \/ Start
    \/ StartEmpty
    \/ AttemptOversized
    \/ BeginGenerate
    \/ EndGenerateRaises
    \/ EndGenerateReplies
    \/ Yield
    \/ YieldUnbound
    \/ Pull
    \/ Abandon
    \/ FinishZeroDivision
    \/ FinishAggregate
    \/ Switch
    \/ Rerun

RunsSpec == RunsInit /\ [][RunsNext]_vars

\* ================================================================ repository
\* A context in use: the queries of PMContext and runs of the pipeline on
\* the log taken from it, in any order, as the driver and the flow of
\* pipelines/simple_recostruction.py make them.

\* The files of the context: three commits; three commits of which the
\* oldest is the initial commit the driver filters out; three commits of
\* which the newest holds a blob; the initial commit alone; a file whose
\* second block has no title line.
RepositoryFiles ==
    { Join(<< DriverBlock("c3", <<"add", "api">>, << <<"+", "x">> >>),
              DriverBlock("c2", <<"add", "ci">>, << <<"+", "z">> >>),
              DriverBlock("c1", <<"start">>, << <<"+", "x">> >>) >>),
      Join(<< DriverBlock("c3", <<"add", "api">>, << <<"+", "x">> >>),
              DriverBlock("c2", <<"add", "ci">>, << <<"+", "z">> >>),
              DriverBlock("c1", FilteredTitle, << <<"+", "x">> >>) >>),
      Join(<< DriverBlock("c3", <<"add", "img">>, << <<"+", "blob">> >>),
              DriverBlock("c2", <<"add", "ci">>, << <<"+", "z">> >>),
              DriverBlock("c1", <<"start">>, << <<"+", "x">> >>) >>),
      DriverBlock("c1", FilteredTitle, << <<"+", "x">> >>),
      Join(<< DriverBlock("c2", <<"add", "ci">>, << <<"+", "z">> >>),
              << <<"commit", "c1">>, <<"Author:", "ann", "<a@x>">> >> >>) }

RepositoryTaskLists ==
    { <<Task("api", "B", 30), Task("ui", "F", 50), Task("ci", "B", 70)>> }

\* A mutant of AfterTaking: the filter of line 168 drops the rows in place.
AfterTakingInPlace(stored, taken) ==
    SelectSeq(stored, LAMBDA r : r.title # FilteredTitle)

\* The frame of the context after the driver took the log: get_logs hands
\* out self.git_logs[mask].copy() (line 104) and the filter of line 168
\* builds a further frame, so the text_size column of line 72 is added to a
\* frame of the caller.
AfterTaking(stored, taken) == stored

\* Lines 165-168 and the call of line 171, which makes the generator: the
\* analyst is built on the reference tasks (none of the lists here has one
\* for these bounds) and the filtered log is given to analyze_git_logs. A
\* further run is made once the run before is over.
TakeLogs ==
    /\ stage = "ready"
    /\ runs <= MaxReruns
    /\ IF runs = 0 THEN pc = "idle" ELSE pc \in {"done", "aborted"}
    /\ GetTasks(closed_tasks, OctoberFirst, NovemberFirst, NoCategory).ok
    /\ GetTasks(closed_tasks, OctoberFirst, NovemberFirst, NoCategory).value = <<>>
    /\ DriverLogs(git_logs).ok
    /\ logs' = DriverLogs(git_logs).value
    /\ git_logs' = AfterTaking(git_logs, logs')
    /\ runs' = runs + 1
    /\ commits' = <<>>
    /\ pc' = "idle"
    /\ i' = 0
    /\ attempts' = 0
    /\ tasks' = Unbound
    /\ unfinished_moves' = ""
    /\ tasks_doiting' = <<>>
    /\ total__time' = 0
    /\ yielded' = <<>>
    /\ aggregated' = <<>>
    /\ error' = "none"
    /\ step' = NoStep
    /\ requests' = <<>>
    /\ last' = NoAttempt
    /\ succeeded' = <<>>
    /\ UNCHANGED <<file, closed_tasks, daily_stats, stage, answer>>
    /\ UNCHANGED <<aggregatorVars, other, last_handle_speed, in_flight>>

\* The first next() on the generator of a run that was made.
RepositoryStart == runs > 0 /\ Start

RepositoryStartEmpty == runs > 0 /\ StartEmpty

RepositoryInit ==
    /\ file \in RepositoryFiles
    /\ closed_tasks \in RepositoryTaskLists
    /\ git_logs = <<>>
    /\ daily_stats = <<>>
    /\ stage = "new"
    /\ answer = NoAnswer
    /\ logs = <<>>
    /\ commits = <<>>
    /\ pc = "idle"
    /\ i = 0
    /\ attempts = 0
    /\ tasks = Unbound
    /\ unfinished_moves = ""
    /\ tasks_doiting = <<>>
    /\ total__time = 0
    /\ yielded = <<>>
    /\ aggregated = <<>>
    /\ error = "none"
    /\ step = NoStep
    /\ requests = <<>>
    /\ last = NoAttempt
    /\ succeeded = <<>>
    /\ AggregatorIdle
    /\ SingleRun

RepositoryNext ==
    \/ Construct
    \/ ConstructRaises
    \/ CallGetTasks
    \/ CallGetLogs
    \/ CallGetDailyStats
    \/ CallGetSummary
    \/ TakeLogs
    \/ RepositoryStart
    \/ RepositoryStartEmpty
    \/ AttemptOversized
    \/ AttemptBackendRaises
    \/ AttemptBackendReplies
    \/ Yield
    \/ YieldUnbound
    \/ Pull
    \/ FinishZeroDivision
    \/ FinishAggregate

RepositorySpec == RepositoryInit /\ [][RepositoryNext]_vars

\* ==================================================================== claims
\* The step history is meaningful once the loop has been entered.
InStep == step.result # "none"

\* The parser output for the reply of the last attempt.
LastParsed == ParseResponse(last.text, commits[i + 1].timestamp).value

\* Number of requests passed to the backend for the commit of index c.
RequestsFor(c) == Cardinality({k \in DOMAIN requests : requests[k].commit = c})

\* The generator has returned or raised.
RunOver == pc \in {"done", "aborted"}

Max(a, b) == IF a > b THEN a ELSE b

\* C1: after processing commit i, unfinished_moves is exactly the parser's
\* unfinished_moves for commit i when the step succeeded, and exactly the
\* value held on entry to commit i when the step failed or was skipped (also
\* between the failed attempts); a failure never resets it.
C1_CarryOver ==
    /\ step.result = "success" =>
           unfinished_moves = LastParsed.unfinished_moves
    /\ step.result \in {"pending", "exhausted"} =>
           unfinished_moves = step.um0
    /\ step.result = "none" => unfinished_moves = ""

\* A step that failed while a non-empty carry-over was held, batch delivered.
C1_Witness ==
    /\ step.result = "exhausted"
    /\ step.um0 = "wip"
    /\ unfinished_moves = "wip"
    /\ pc = "suspended"

\* C2: no commit gets more than 3 attempts, and the backend is invoked at
\* most 3 times for any commit.
C2_RetryBudget ==
    /\ step.tries <= 3
    /\ \A c \in 0..Len(commits) : RequestsFor(c) <= 3

\* A commit whose three attempts all reached the backend and failed.
C2_Witness ==
    /\ step.result = "exhausted"
    /\ step.tries = 3
    /\ RequestsFor(i) = 3

\* C3: when every attempt for a commit failed and the budget is exhausted,
\* the batch yielded for that commit is empty, nothing was added to the
\* accumulated list and unfinished_moves is what it was before the commit.
C3_ExhaustedYieldsEmptyBatch ==
    (step.result = "exhausted" /\ pc # "yield") =>
        /\ Len(yielded) > 0
        /\ yielded[Len(yielded)].commit = i
        /\ yielded[Len(yielded)].tasks = <<>>
        /\ tasks_doiting = step.acc0
        /\ unfinished_moves = step.um0

\* C4: a commit that exhausts its retries never makes the run end with an
\* error: the pipeline goes on to the next commit.
C4_ExhaustionNeverAborts ==
    step.result = "exhausted" => (pc # "aborted" /\ error = "none")

\* C5: a commit whose assembled request exceeds the ceiling is skipped
\* without consuming any attempt of the retry budget.
C5_OversizedConsumesNoAttempt ==
    (InStep /\ Oversized(commits[i + 1], step.um0)) =>
        (step.tries = 0 /\ attempts = Attempts)

\* C6: when the caller has pulled every batch of a log of n commits, exactly
\* max(0, n - 2) batches were yielded, the k-th for the (k+2)-th oldest
\* commit, and the two oldest commits were never sent to the backend.
C6_BatchPerProcessedCommit ==
    RunOver =>
        /\ Len(yielded) = Max(0, Len(logs) - 2)
        /\ \A k \in DOMAIN yielded : yielded[k].commit = k + 1
        /\ \A k \in DOMAIN requests : requests[k].commit >= 2

\* C7: for a non-empty log, when the caller has pulled every batch the run
\* ends in Done and the Aggregator was invoked exactly once, with the
\* complete accumulated task list.
C7_EndsDoneAggregatedOnce ==
    (RunOver /\ Len(logs) > 0) =>
        (pc = "done" /\ aggregated = <<tasks_doiting>>)

\* C8: the accumulated list after a step is the list on entry followed by
\* the parser's tasks of that commit when the step succeeded, and the list
\* on entry when it failed or was skipped.
C8_AppendOnly ==
    /\ step.result = "success" =>
           tasks_doiting = step.acc0 \o LastParsed.tasks
    /\ step.result \in {"pending", "exhausted"} =>
           tasks_doiting = step.acc0
    /\ step.result = "none" => tasks_doiting = <<>>

\* A step has succeeded after an earlier step, and its batch was delivered.
C8_Witness ==
    /\ step.result = "success"
    /\ Len(yielded) >= 2
    /\ pc = "suspended"

\* C9: whenever control is with the caller (also after a later commit
\* exhausted its retries, after the caller stopped pulling or after the run
\* ended), the batches received hold the tasks of every commit processed
\* successfully so far.
C9_YieldedHoldSuccesses ==
    pc # "yield" =>
        \A k \in DOMAIN succeeded :
            \E b \in DOMAIN yielded :
                /\ yielded[b].commit = succeeded[k].commit
                /\ yielded[b].tasks = succeeded[k].tasks

\* A commit succeeded, a later one exhausted its retries, the caller stopped.
C9_Witness ==
    /\ Len(succeeded) > 0
    /\ step.result = "exhausted"
    /\ pc = "stopped"

\* The reply content once a wrapping pair of fence lines is taken away.
ReplyContent(text) ==
    IF Len(text) >= 2 /\ text[1] \in FenceLines /\ text[Len(text)] \in FenceLines
    THEN SubSeq(text, 2, Len(text) - 1)
    ELSE text

\* The reply is not valid JSON, lacks tasks or unfinished_moves, or lists a
\* task whose category is outside B, F, I.
BadReply(text) ==
    LET doc == JsonLoads(ReplyContent(text))
    IN  \/ ~doc.ok
        \/ "tasks" \notin DOMAIN doc.value
        \/ "unfinished_moves" \notin DOMAIN doc.value
        \/ \E k \in DOMAIN doc.value["tasks"] :
               \/ "category" \notin DOMAIN doc.value["tasks"][k]
               \/ doc.value["tasks"][k]["category"] \notin Category

\* C10: an attempt whose reply is bad fails as a whole: all attempts made so
\* far for the commit are consumed, no task was produced, unfinished_moves
\* and the accumulated list are as on entry, and no task with a category
\* outside B, F, I was ever yielded.
C10_BadReplyFailsAttempt ==
    (last.kind = "response" /\ BadReply(last.text)) =>
        /\ step.result \in {"pending", "exhausted"}
        /\ attempts = Attempts - step.tries
        /\ unfinished_moves = step.um0
        /\ tasks_doiting = step.acc0
        /\ \A b \in DOMAIN yielded : \A t \in DOMAIN yielded[b].tasks :
               yielded[b].tasks[t].category \in Category

\* The last attempt got a reply whose second task has an unknown category.
C10_Witness ==
    /\ last.kind = "response"
    /\ BadReply(last.text)
    /\ JsonLoads(last.text).ok
    /\ "tasks" \in DOMAIN JsonLoads(last.text).value
    /\ Len(JsonLoads(last.text).value["tasks"]) = 2
    /\ step.tries = 2
    /\ attempts = 1

\* The reply is well-formed and lists at least one task, all of them with a
\* category among B, F, I.
GoodReplyWithTasks(text) ==
    /\ ~BadReply(text)
    /\ Len(JsonLoads(ReplyContent(text)).value["tasks"]) >= 1

\* C11: a well-formed reply for commit c that lists k >= 1 tasks with
\* categories among B, F, I makes the attempt succeed with exactly k
\* ClosedTasks, in reply order, carrying the reply's text and category and
\* finished_at equal to the timestamp of commit c.
C11_GoodReplyYieldsTasks ==
    (last.kind = "response" /\ GoodReplyWithTasks(last.text)) =>
        LET objs == JsonLoads(ReplyContent(last.text)).value["tasks"]
        IN  /\ step.result = "success"
            /\ tasks.bound
            /\ Len(tasks.value) = Len(objs)
            /\ \A k \in DOMAIN objs :
                   /\ tasks.value[k]["text"] = objs[k]["text"]
                   /\ tasks.value[k]["category"] = objs[k]["category"]
                   /\ tasks.value[k]["finished_at"] = commits[i + 1].timestamp

\* The reply is the document with no task and an empty unfinished_moves.
EmptyReply(text) ==
    LET doc == JsonLoads(ReplyContent(text))
    IN  doc.ok /\ doc.value = [tasks |-> <<>>, unfinished_moves |-> ""]

\* C12: the attempt that receives the empty document succeeds: it consumes
\* no attempt (only the failed passes before it did), the local batch is
\* empty, nothing is added to the accumulated list, unfinished_moves becomes
\* the empty string whatever it was, and the batch delivered is empty.
C12_EmptyReplySucceeds ==
    (last.kind = "response" /\ EmptyReply(last.text)) =>
        /\ step.result = "success"
        /\ attempts = Attempts - (step.tries - 1)
        /\ tasks = Bound(<<>>)
        /\ tasks_doiting = step.acc0
        /\ unfinished_moves = ""
        /\ pc \in {"suspended", "stopped"} =>
               /\ yielded[Len(yielded)].commit = i
               /\ yielded[Len(yielded)].tasks = <<>>

\* The empty document arrives on the second attempt while wip is carried.
C12_Witness ==
    /\ last.kind = "response"
    /\ EmptyReply(last.text)
    /\ step.um0 = "wip"
    /\ step.tries = 2
    /\ unfinished_moves = ""
    /\ pc = "suspended"

\* The reply is valid JSON of the expected schema, not wrapped in a fence.
ValidUnwrapped(text) ==
    /\ text[1] \notin FenceLines
    /\ JsonLoads(text).ok
    /\ {"tasks", "unfinished_moves"} \subseteq DOMAIN JsonLoads(text).value

\* C13: for the valid reply text T just received, parsing T between an
\* opening and a closing fence line gives what parsing T itself gives.
C13_FenceTransparent ==
    (last.kind = "response" /\ ValidUnwrapped(last.text)) =>
        \A open \in FenceLines :
            ParseResponse(<<open>> \o last.text \o <<"qqq">>,
                          commits[i + 1].timestamp)
              = ParseResponse(last.text, commits[i + 1].timestamp)

\* A valid reply of two lines was received and parsed.
C13_Witness ==
    /\ last.kind = "response"
    /\ ValidUnwrapped(last.text)
    /\ Len(last.text) = 2
    /\ step.result = "success"
    /\ unfinished_moves = "wip"

\* ------------------------------------------------------ the project context
\* The bounds of a query as calendar days and as instants.
InRange(x, from, to) ==
    /\ (from.kind # "none" => from.value <= x)
    /\ (to.kind # "none" => x <= to.value)

\* C14: for all bounds from and to (each possibly None) and every optional
\* category, get_tasks returns, in stored order, exactly the stored tasks
\* with from <= finished_at <= to and with the given category when one is
\* supplied; without arguments it returns every stored task.
C14_GetTasksFilters ==
    answer.op = "get_tasks" =>
        answer.result =
            Returned(SelectSeq(closed_tasks, LAMBDA t :
                /\ InRange(t.finished_at, answer.from, answer.to)
                /\ (answer.category # NoCategory =>
                        t.category = answer.category)))

\* The calendar day a bound stands for.
DayOfBound(b) ==
    IF b.kind = "datetime" THEN [b EXCEPT !.value = @ \div HoursPerDay] ELSE b

\* C15: for all bounds from and to (each possibly None), get_logs returns,
\* in stored order, exactly the stored commits with from <= day <= to;
\* without arguments it returns every stored commit.
C15_GetLogsFilters ==
    answer.op = "get_logs" =>
        answer.result =
            Returned(SelectSeq(git_logs, LAMBDA r :
                \/ answer.from.kind = "none" /\ answer.to.kind = "none"
                \/ /\ r.day.valid
                   /\ InRange(r.day.value, DayOfBound(answer.from),
                              DayOfBound(answer.to))))

\* The stored commits of calendar day d, by index, and a sum over them.
CommitsOn(d) == { k \in 1..Len(git_logs) : git_logs[k].day = At(d) }

RECURSIVE SumOver(_, _)
SumOver(f, S) ==
    IF S = {} THEN 0
    ELSE LET k == CHOOSE m \in S : TRUE IN f[k] + SumOver(f, S \ {k})

\* C16: get_daily_stats returns exactly one row per calendar day that has a
\* stored commit and no other row, ordered by day; each row holds the number
\* of that day's commits, the sums of their insertions and deletions,
\* net_changes = insertions - deletions, and an average with
\* avg_commit_size * commits = insertions + deletions.
C16_DailyStatsPerDay ==
    answer.op = "get_daily_stats" =>
        /\ answer.result.ok
        /\ LET rows == answer.result.value
               days == { git_logs[k].day.value :
                           k \in { j \in 1..Len(git_logs) : git_logs[j].day.valid } }
           IN  /\ { rows[k].day : k \in 1..Len(rows) } = days
               /\ Len(rows) = Cardinality(days)
               /\ \A k \in 1..(Len(rows) - 1) : rows[k].day < rows[k + 1].day
               /\ \A k \in 1..Len(rows) :
                    LET row == rows[k]
                        on == CommitsOn(row.day)
                    IN  /\ row.commits = Cardinality(on)
                        /\ row.commits >= 1
                        /\ row.insertions = SumOver(Insertions(git_logs), on)
                        /\ row.deletions = SumOver(Deletions(git_logs), on)
                        /\ row.net_changes = row.insertions - row.deletions
                        /\ row.avg_commit_size.num * row.commits
                             = (row.insertions + row.deletions)
                                 * row.avg_commit_size.den

\* Two days, the first of them with two commits, lines removed as well as
\* added.
C16_Witness ==
    /\ answer.op = "get_daily_stats"
    /\ Len(answer.result.value) = 2
    /\ answer.result.value[1].commits = 2
    /\ answer.result.value[1].deletions > 0

\* C17: the per-category map of get_summary has exactly one entry for each of
\* the three categories, the number of stored tasks of that category (0 when
\* there is none), and the entries sum to total_tasks.
C17_SummaryCountsEveryCategory ==
    answer.op = "get_summary" =>
        /\ answer.result.ok
        /\ LET summary == answer.result.value
           IN  /\ DOMAIN summary.categories = Category
               /\ \A cat \in Category :
                    summary.categories[cat] =
                        Cardinality({ k \in 1..Len(closed_tasks) :
                                        closed_tasks[k].category = cat })
               /\ SumOver(summary.categories, Category) = summary.total_tasks

\* The chunks of the file that load_git_logs can read, in order.
Readable(cs) == SelectSeq(cs, LAMBDA c : CommitRow(c).ok)

RowsOf(cs) == [k \in 1..Len(cs) |-> CommitRow(cs[k]).value]

\* C18: a block that lacks its author, date or title line is skipped alone:
\* the parser still returns a record for every other block.
C18_BadBlockSkipped ==
    stage \in {"ready", "failed"} =>
        LoadGitLogs(file) = Returned(RowsOf(Readable(SplitCommits(file))))

\* C19: for a well-formed text the parser returns, in source order, one
\* record per block that begins with the delimiter and none for the text
\* before the first delimiter, so as many records as there are delimiters.
C19_OneRecordPerDelimiter ==
    LET blocks == Tail(SplitCommits(file))
    IN  (/\ stage \in {"ready", "failed"}
         /\ blocks # <<>>
         /\ Readable(blocks) = blocks) =>
            /\ LoadGitLogs(file) = Returned(RowsOf(blocks))
            /\ Len(RowsOf(blocks)) = Cardinality(Delimiters(file))

\* The lines of a chunk after its header: delimiter remainder, author, date,
\* empty line and title.
BodyOf(c) == SubSeq(c, 6, Len(c))

\* C20: in every record insertions is the number of lines of the block that
\* begin with a plus sign and deletions the number that begin with a minus
\* sign, the header lines not being counted; both are >= 0.
C20_CountsOutsideHeader ==
    stage = "ready" =>
        \A k \in 1..Len(LoadGitLogs(file).value) :
            LET r == LoadGitLogs(file).value[k]
            IN  /\ r.insertions = CountStarting(BodyOf(r.text), "+")
                /\ r.deletions = CountStarting(BodyOf(r.text), "-")
                /\ r.insertions >= 0
                /\ r.deletions >= 0

\* The title holds initial, init or first, whatever the case of the letters.
IsBootstrapTitle(title) == \E k \in 1..Len(title) : title[k] \in BootstrapWords

\* What the context holds and reports when its stored commits are rows: the
\* dated rows are the commits of the daily rows, and a get_logs that returns
\* returns rows of the list, in order.
ContextHolds(rows) ==
    /\ git_logs = rows
    /\ Sum([k \in 1..Len(daily_stats) |-> daily_stats[k].commits])
         = Len(SelectSeq(rows, LAMBDA r : r.day.valid))
    /\ (answer.op = "get_logs" /\ answer.result.ok) =>
          answer.result.value =
              SelectSeq(rows, LAMBDA r :
                  \E k \in 1..Len(answer.result.value) :
                      answer.result.value[k] = r)

\* C21 as stated: for a parsed log of any length, a first entry whose title
\* holds one of the keywords is removed before the daily statistics are
\* computed, and no other entry is removed.
C21_BootstrapDroppedAnyLength ==
    stage = "ready" =>
        LET parsed == LoadGitLogs(file).value
        IN  ContextHolds(IF IsBootstrapTitle(parsed[1].title)
                         THEN Tail(parsed) ELSE parsed)

\* C21 amended: the first entry is removed when its title holds one of the
\* keywords and the parsed log has more than one entry; it then appears in
\* no answer of get_logs and in no daily row. No other entry is removed, and
\* a log of one entry keeps it.
C21_BootstrapDroppedWhenFollowed ==
    stage = "ready" =>
        LET parsed == LoadGitLogs(file).value
        IN  ContextHolds(IF IsBootstrapTitle(parsed[1].title) /\ Len(parsed) > 1
                         THEN Tail(parsed) ELSE parsed)

\* A log of three entries that has lost its first one, asked for its logs.
C21_Witness ==
    /\ stage = "ready"
    /\ Len(LoadGitLogs(file).value) = 3
    /\ IsBootstrapTitle(LoadGitLogs(file).value[1].title)
    /\ Len(git_logs) = 2
    /\ Len(daily_stats) = 2
    /\ answer.op = "get_logs"
    /\ answer.result.ok
    /\ Len(answer.result.value) = 2

\* The words of the date line of a stored commit, after the Date: token.
DateWords(r) == IF r.text[3] = <<>> THEN <<>> ELSE Tail(r.text[3])

\* C23: a commit whose date fails to parse gets a null timestamp and day; no
\* get_logs with a date bound returns it, it is counted in no daily row, and
\* it is still counted in the total; a commit whose date parses has as day
\* the date component of its timestamp.
C23_UnparsedDateExcluded ==
    stage = "ready" =>
        /\ \A k \in 1..Len(git_logs) :
             LET r == git_logs[k]
             IN  IF DateWords(r) \in DOMAIN DateTable
                 THEN /\ r.timestamp = At(DateTable[DateWords(r)])
                      /\ r.day = At(r.timestamp.value \div HoursPerDay)
                 ELSE r.timestamp = NaT /\ r.day = NaT
        /\ Sum([k \in 1..Len(daily_stats) |-> daily_stats[k].commits])
             = Cardinality({ k \in 1..Len(git_logs) :
                               DateWords(git_logs[k]) \in DOMAIN DateTable })
        /\ (/\ answer.op = "get_logs"
            /\ answer.result.ok
            /\ (answer.from.kind # "none" \/ answer.to.kind # "none")) =>
              \A k \in 1..Len(answer.result.value) :
                  DateWords(answer.result.value[k]) \in DOMAIN DateTable
        /\ (answer.op = "get_summary" /\ answer.result.ok) =>
              answer.result.value.total_commits = Len(git_logs)

\* A commit without a date next to dated ones, and a bounded get_logs that
\* returned some commit.
C23_Witness ==
    /\ stage = "ready"
    /\ \E k \in 1..Len(git_logs) : git_logs[k].day = NaT
    /\ daily_stats # <<>>
    /\ answer.op = "get_logs"
    /\ answer.from.kind = "date"
    /\ answer.result.ok
    /\ answer.result.value # <<>>

\* The lines a call of load_closed_tasks was given, and whether each ends in
\* one of the three category codes.
LoadedLines == LinesOf(answer.from.folder)

\* C27: for every historical task line that ends in a category code of B, F
\* and I, loading the line and taking the string form of the task gives a
\* text that carries the same code. The lines are those of files named
\* after a month that has a 30th day.
C27_CategoryRoundTrip ==
    (/\ answer.op = "load_closed_tasks"
     /\ \A k \in 1..Len(LoadedLines) :
          /\ LoadedLines[k].line.code \in Category
          /\ LoadedLines[k].stem[1] = "October") =>
        /\ answer.result.ok
        /\ Len(answer.result.value) = Len(LoadedLines)
        /\ \A k \in 1..Len(LoadedLines) :
             TaskString(answer.result.value[k])[2][2] = LoadedLines[k].line.code

\* C28: for every month name that leads the stem of a task file, each line
\* of the file is loaded as a task finished on the 30th of that month of the
\* current year, at one fixed time of day.
C28_SyntheticFinishedAt ==
    (/\ answer.op = "load_closed_tasks"
     /\ \A k \in 1..Len(LoadedLines) :
          /\ LoadedLines[k].stem[1] \in DOMAIN MonthNumber
          /\ LoadedLines[k].line.code \in Category) =>
        /\ answer.result.ok
        /\ Len(answer.result.value) = Len(LoadedLines)
        /\ \A k \in 1..Len(LoadedLines) :
             LET at == answer.result.value[k].finished_at
             IN  /\ at.year = answer.from.value
                 /\ at.month = MonthNumber[LoadedLines[k].stem[1]]
                 /\ at.day = 30
                 /\ <<at.hour, at.minute>> = <<21, 20>>

\* ------------------------------------------------------------ the aggregator
\* The files of the folder after the first call, and the occurrences of a
\* task in a list.
FirstFiles == outcomes[1].dir

Occurrences(t, ts) == Len(SelectSeq(ts, LAMBDA x : x = t))

RECURSIVE SumOfFiles(_, _, _)
SumOfFiles(dir, names, t) ==
    IF names = {} THEN 0
    ELSE LET f == CHOOSE x \in names : TRUE
         IN  Occurrences(t, dir[f]) + SumOfFiles(dir, names \ {f}, t)

\* C24: for every non-empty list given to the aggregator the files written
\* partition it: every task is in exactly one file, as often as in the list,
\* no file holds a task that was not given, and no file is empty.
C24_BatchesPartitionStream ==
    (outcomes # <<>> /\ stream # <<>>) =>
        /\ outcomes[1].ok
        /\ \A f \in DOMAIN FirstFiles :
             /\ FirstFiles[f] # <<>>
             /\ \A k \in 1..Len(FirstFiles[f]) :
                  Occurrences(FirstFiles[f][k], stream) > 0
        /\ \A k \in 1..Len(stream) :
             /\ Cardinality({ f \in DOMAIN FirstFiles :
                                Occurrences(stream[k], FirstFiles[f]) > 0 }) = 1
             /\ SumOfFiles(FirstFiles, DOMAIN FirstFiles, stream[k])
                  = Occurrences(stream[k], stream)

\* C25: a second run on the same list leaves every file of the first run
\* with the content it had after the first run: files are overwritten,
\* never appended to.
C25_RerunOverwrites ==
    Len(outcomes) >= 2 =>
        \A f \in DOMAIN FirstFiles :
            /\ f \in DOMAIN outcomes[2].dir
            /\ outcomes[2].dir[f] = FirstFiles[f]

\* Two runs in the same year that wrote two files each time.
C25_Witness ==
    /\ Len(outcomes) = 2
    /\ outcomes[1].ok
    /\ outcomes[2].ok
    /\ outcomes[2].year = outcomes[1].year
    /\ Cardinality(DOMAIN FirstFiles) = 2
    /\ predicted_tasks = FirstFiles

\* C26: the files are keyed by the month of finished_at and its year: two
\* tasks of the list are in the same file exactly when they finished in the
\* same month of the same year.
C26_FileKeyedByMonthAndYear ==
    (outcomes # <<>>
       /\ \A k \in 1..Len(stream) : stream[k].finished_at # Undated) =>
        \A j \in 1..Len(stream), k \in 1..Len(stream) :
            (\E f \in DOMAIN FirstFiles :
                /\ Occurrences(stream[j], FirstFiles[f]) > 0
                /\ Occurrences(stream[k], FirstFiles[f]) > 0)
            <=> stream[j].finished_at = stream[k].finished_at

\* ---------------------------------------------------------------- the driver
\* The hashes of the commits a request was issued for, in the order of the
\* first request of each.
RECURSIVE RequestedFrom(_)
RequestedFrom(k) ==
    IF k > Len(requests) THEN <<>>
    ELSE LET h == commits[requests[k].commit + 1].hash
             rest == RequestedFrom(k + 1)
         IN  IF k > 1 /\ requests[k - 1].commit = requests[k].commit
             THEN rest
             ELSE <<h>> \o rest

RequestedHashes == RequestedFrom(1)

FiveWithBootstrap == file \in {FiveNewestFirst, FiveOldestFirst}

\* C22: for a log of five commits whose first commit is an initial commit,
\* once the loop of the pipeline is over the requests issued are those for
\* the commits c3, c4 and c5, in this order, and at most three batches have
\* been yielded.
C22_RequestsCommitsThreeToFive ==
    (FiveWithBootstrap /\ stage = "handed" /\ pc = "finish") =>
        /\ RequestedHashes = <<"c3", "c4", "c5">>
        /\ Len(yielded) <= 3

\* ------------------------------------------------------------------ the runs
\* A step that is not a change of the executing run leaves the frame of the
\* other run as it is; a change of the executing run exchanges the frames.
OtherUntouched == other' = other

FramesExchanged == other' = Frame /\ Frame' = other

\* The first next() of a run: it leaves idle other than by commits[0]
\* raising on an empty log.
RunBegins == OtherUntouched /\ pc = "idle" /\ pc' \in {"attempt", "finish"}

\* C29: two runs of the pipeline share no mutable state. Whatever the
\* interleaving of their steps, a step of one run changes nothing of the
\* frame of the other (its carry-over, its yielded batches and its
\* accumulated list among it), a change of the executing run hands each run
\* the frame it was suspended with, and every run, the first ones and those
\* made on the analyst after a run is over, begins with an empty carry-over
\* and an empty accumulated list.
C29_RunsShareNothing ==
    [][ /\ OtherUntouched \/ FramesExchanged
        /\ RunBegins => (unfinished_moves' = "" /\ tasks_doiting' = <<>>) ]_vars

\* Both runs have a success behind them and hold different carry-overs, the
\* suspended one in the middle of a backend call, the executing one made
\* after a run was over.
C29_Witness ==
    /\ runs = 1
    /\ succeeded # <<>>
    /\ unfinished_moves = ""
    /\ other.succeeded # <<>>
    /\ other.unfinished_moves = "wip"
    /\ other.pc = "generating"

\* C30: at most one generation call of a run is in flight: the run has a
\* call in flight exactly while it waits for its outcome, so that the call
\* for the next commit or the retry starts after the outcome is received.
C30_OneCallInFlight ==
    /\ in_flight \in {0, 1}
    /\ in_flight = 1 <=> pc = "generating"
    /\ other.in_flight \in {0, 1}
    /\ other.in_flight = 1 <=> other.pc = "generating"

\* A retry is in flight after two calls for the same commit have raised or
\* given an unusable reply, while the other run has a call in flight too.
C30_Witness ==
    /\ in_flight = 1
    /\ step.tries = 2
    /\ Len(requests) = 2
    /\ other.in_flight = 1

\* ------------------------------------------------------ batches and the list
\* The tasks of the batches received by the caller, in order.
RECURSIVE BatchesFrom(_)
BatchesFrom(k) ==
    IF k > Len(yielded) THEN <<>>
    ELSE yielded[k].tasks \o BatchesFrom(k + 1)

\* The tasks parsed from the successful reply of the commit of index c, none
\* when the commit had no successful reply.
OwnTasks(c) ==
    LET own == { k \in DOMAIN succeeded : succeeded[k].commit = c }
    IN  IF own = {} THEN <<>> ELSE succeeded[CHOOSE k \in own : TRUE].tasks

CarryBefore(c) ==
    LET prior == { k \in DOMAIN succeeded : succeeded[k].commit < c }
    IN  IF prior = {} THEN ""
        ELSE succeeded[CHOOSE k \in prior : \A m \in prior : m <= k].unfinished_moves

\* C32: a request is determined by the commit and the carry-over held on
\* entry to it: all requests sent for one commit are the same request, the
\* carry-over in it is the one produced by the most recent successful step
\* before that commit (empty when there is none), and its length is that of
\* the fixed text, the carry-over, the title and the body cut to BodyBudget.
C32_RetriesSendSameRequest ==
    \A k \in DOMAIN requests :
        /\ \A j \in DOMAIN requests :
             requests[j].commit = requests[k].commit => requests[j] = requests[k]
        /\ requests[k].unfinished_moves = CarryBefore(requests[k].commit)
        /\ requests[k].size =
             RequestSize(commits[requests[k].commit + 1],
                         requests[k].unfinished_moves)

\* Three requests were sent for a commit that was entered with the carry-over
\* of the commit before it.
C32_Witness ==
    /\ RequestsFor(i) = 3
    /\ step.um0 = "wip"
    /\ Len(succeeded) = 1
    /\ requests[Len(requests)].unfinished_moves = "wip"

\* ------------------------------------------------------ the order of commits
\* C33: the index of the commit being processed never decreases; it changes
\* only when a commit is entered, from idle to the first processed commit
\* and from a delivered batch to the next commit, one at a time; a commit
\* that was left is not entered again, and a commit is attempted at most
\* Attempts times.
C33_IndexAdvancesByOne ==
    [][ /\ i' >= i
        /\ i' # i =>
             /\ pc' = "attempt"
             /\ step'.tries = 0
             /\ \/ pc = "idle" /\ i' = 2
                \/ pc = "suspended" /\ i' = i + 1
        /\ (pc' = "attempt" /\ pc # "attempt") => i' # i
        /\ step'.tries <= Attempts ]_vars

\* The second processed commit is at its last attempt after the first one
\* was finished.
C33_Witness ==
    /\ i = 3
    /\ pc = "attempt"
    /\ step.tries = 2
    /\ Len(yielded) = 1

\* ------------------------------------------------------------------ laziness
\* C34: a request is sent, the carry-over or the accumulated list changes
\* only in an attempt for the commit i, and then the batches of all the
\* commits processed before i have been received; while the generator is
\* suspended nothing happens but the caller asking for the next batch or
\* stopping, neither of which sends a request or changes the carry-over, the
\* list or the batches; once the caller has stopped nothing changes at all.
C34_NothingBeforeTheNextPull ==
    [][ /\ (\/ requests' # requests
            \/ unfinished_moves' # unfinished_moves
            \/ tasks_doiting' # tasks_doiting)
           => (pc = "attempt" /\ Len(yielded) = i - 2)
        /\ pc = "suspended" =>
             /\ pc' \in {"attempt", "finish", "stopped"}
             /\ UNCHANGED <<requests, unfinished_moves, tasks_doiting, yielded>>
        /\ pc = "stopped" => UNCHANGED pipelineVars ]_vars

\* The caller stopped after the first batch of a log with two commits to
\* process: nothing was sent for the second one.
C34_Witness ==
    /\ pc = "stopped"
    /\ Len(yielded) = 1
    /\ Len(commits) = 4
    /\ RequestsFor(3) = 0
    /\ requests # <<>>

\* ------------------------------------------------------- the size of requests
\* C35: every request passed to the backend is at most SizeCeiling
\* characters long; the text of its commit is shorter than SizeCeiling, and
\* is not cut by the BodyBudget truncation.
C35_RequestsWithinCeiling ==
    \A k \in DOMAIN requests :
        LET commit == commits[requests[k].commit + 1]
        IN  /\ requests[k].size <= SizeCeiling
            /\ commit.text_size < SizeCeiling
            /\ Min(commit.text_size, BodyBudget) = commit.text_size

\* A request one character below the ceiling was sent with an empty
\* carry-over; the next commit, of the same length, was entered with a
\* carry-over that makes its request too long, and nothing was sent for it.
C35_Witness ==
    /\ \E k \in DOMAIN requests : requests[k].size = SizeCeiling - 1
    /\ step.result = "exhausted"
    /\ step.um0 = "wip"
    /\ ~Oversized(commits[i + 1], "")
    /\ Oversized(commits[i + 1], step.um0)
    /\ RequestsFor(i) = 0

\* ------------------------------------------------------------ the repository
\* What the query recorded in answer returns when it is asked again.
AskedAgain ==
    CASE answer.op = "get_tasks" ->
           GetTasks(closed_tasks, answer.from, answer.to, answer.category)
      [] answer.op = "get_logs" -> GetLogs(git_logs, answer.from, answer.to)
      [] answer.op = "get_daily_stats" -> GetDailyStats(daily_stats)
      [] answer.op = "get_summary" -> GetSummary(closed_tasks, git_logs)
      [] OTHER -> answer.result

MonthsOfFiles(dir) == { f[1] : f \in DOMAIN dir }

MonthsOfStream(ts) ==
    { MonthName[ts[k].finished_at.month] :
        k \in { j \in 1..Len(ts) : ts[j].finished_at # Undated } }

\* C37: after a run of the aggregator that returned, the months that have a
\* file in the folder are exactly the months that have a task in the list
\* of that run: no file of an earlier run for another month remains.
C37_OnlyFilesOfLatestStream ==
    [][ (Len(outcomes') > Len(outcomes) /\ outcomes'[Len(outcomes')].ok) =>
           MonthsOfFiles(predicted_tasks') = MonthsOfStream(stream) ]_vars

\* C38: get_summary returns for every content of the repository; with no
\* task that has a finished_at the first and last task dates are absent,
\* and with no task at all total_tasks and every category count are 0.
C38_SummaryAlwaysReturned ==
    answer.op = "get_summary" =>
        /\ answer.result.ok
        /\ (\A k \in 1..Len(closed_tasks) : closed_tasks[k].finished_at = 0) =>
              /\ answer.result.value.date_range.first_task = NaT
              /\ answer.result.value.date_range.last_task = NaT
        /\ closed_tasks = <<>> =>
              /\ answer.result.value.total_tasks = 0
              /\ \A cat \in Category :
                    answer.result.value.categories[cat] = 0

====
